---- MODULE Spec2Model ----
(***************************************************************************)
(* klip: host trust store (internal/ssh/hostkeys.go), SSH client           *)
(* connection (ssh client) and backend detection (internal/backend).       *)
(*                                                                         *)
(* Text is modelled as sequences of one-character strings, so that the     *)
(* known_hosts file, the lines written to it and the parsing done when it  *)
(* is loaded are computed the way the code computes them.                  *)
(***************************************************************************)
EXTENDS Integers, Sequences, FiniteSets, TLC

\* ------------------------------------------------------------------------
\* Bounds of the model
\* ------------------------------------------------------------------------
\* most lines the known_hosts file may hold
MaxLines == 2

\* ------------------------------------------------------------------------
\* Strings (Go strings / bytes / net packages, as used by hostkeys.go)
\* ------------------------------------------------------------------------
NL == "\n"

IsSpace(c) == c \in {" ", "\t", "\r", NL}

RECURSIVE TrimLeft(_)
TrimLeft(s) == IF s # <<>> /\ IsSpace(Head(s)) THEN TrimLeft(Tail(s)) ELSE s

RECURSIVE TrimRight(_)
TrimRight(s) ==
    IF s # <<>> /\ IsSpace(s[Len(s)]) THEN TrimRight(SubSeq(s, 1, Len(s) - 1)) ELSE s

\* strings.TrimSpace / bytes.TrimSpace
TrimSpace(s) == TrimRight(TrimLeft(s))

LowerOf(c) ==
    CASE c = "Y" -> "y" [] c = "E" -> "e" [] c = "S" -> "s"
      [] c = "N" -> "n" [] c = "O" -> "o" [] c = "C" -> "c"
      [] c = "D" -> "d" [] c = "M" -> "m" [] c = "I" -> "i"
      [] c = "B" -> "b" [] OTHER -> c

\* strings.ToLower
ToLower(s) == [i \in 1..Len(s) |-> LowerOf(s[i])]

\* the positions of c in s
Positions(s, c) == {i \in 1..Len(s) : s[i] = c}

\* strings.IndexByte, 1-based; 0 when c does not occur
Index(s, c) ==
    IF Positions(s, c) = {} THEN 0
    ELSE CHOOSE i \in Positions(s, c) : \A j \in Positions(s, c) : i <= j

\* strings.LastIndexByte, 1-based; 0 when c does not occur
LastIndex(s, c) ==
    IF Positions(s, c) = {} THEN 0
    ELSE CHOOSE i \in Positions(s, c) : \A j \in Positions(s, c) : i >= j

\* strings.Contains
Contains(s, sub) ==
    \E i \in 1..(Len(s) - Len(sub) + 1) : SubSeq(s, i, i + Len(sub) - 1) = sub

\* bufio.Scanner with ScanLines: the lines of data without their terminators;
\* a final unterminated line counts when it is not empty
RECURSIVE ScanLines(_)
ScanLines(data) ==
    IF data = <<>> THEN <<>>
    ELSE LET i == Index(data, NL) IN
         IF i = 0 THEN <<data>>
         ELSE <<SubSeq(data, 1, i - 1)>> \o ScanLines(SubSeq(data, i + 1, Len(data)))

\* strings.Join(lines, "\n")
RECURSIVE JoinLines(_)
JoinLines(lines) ==
    IF lines = <<>> THEN <<>>
    ELSE IF Len(lines) = 1 THEN lines[1]
    ELSE lines[1] \o <<NL>> \o JoinLines(Tail(lines))

\* net.SplitHostPort: [ok, host, port]
SplitHostPort(hostport) ==
    LET i   == LastIndex(hostport, ":")
        bad == [ok |-> FALSE, host |-> <<>>, port |-> <<>>]
    IN  IF i = 0 THEN bad
        ELSE IF hostport[1] = "["
        THEN LET end == Index(hostport, "]") IN
             IF end = 0 \/ end + 1 # i THEN bad
             ELSE IF Index(SubSeq(hostport, 2, Len(hostport)), "[") # 0 THEN bad
             ELSE IF Index(SubSeq(hostport, end + 1, Len(hostport)), "]") # 0 THEN bad
             ELSE [ok |-> TRUE, host |-> SubSeq(hostport, 2, end - 1),
                   port |-> SubSeq(hostport, i + 1, Len(hostport))]
        ELSE LET h == SubSeq(hostport, 1, i - 1) IN
             IF Index(h, ":") # 0 THEN bad
             ELSE IF Index(hostport, "[") # 0 \/ Index(hostport, "]") # 0 THEN bad
             ELSE [ok |-> TRUE, host |-> h,
                   port |-> SubSeq(hostport, i + 1, Len(hostport))]

Port22 == <<"2", "2">>

\* ------------------------------------------------------------------------
\* The values verification is called with
\* ------------------------------------------------------------------------
\* host names: the first is part of the second
Hosts == { <<"a">>, <<"a", "b">> }

\* Client.Connect: address := fmt.Sprintf("%s:%d", c.host, c.port)
Address(host, port) == host \o <<":">> \o port

\* the addresses dialled: one on the default port, one on another port
Addresses == { Address(<<"a">>, Port22), Address(<<"a", "b">>, <<"8", "0">>) }

\* the hostnames the exported functions are called with: an address, or a
\* bare host name
Hostnames == Addresses \cup { <<"a">> }

\* ssh.PublicKey: Type() and the base64 text of Marshal()
K1 == [type |-> <<"r">>, blob |-> <<"A">>]
K2 == [type |-> <<"r">>, blob |-> <<"B">>]
K3 == [type |-> <<"e">>, blob |-> <<"C">>]
Keys == {K1, K2, K3}
NoKey == [type |-> <<>>, blob |-> <<>>]

\* ------------------------------------------------------------------------
\* golang.org/x/crypto/ssh/knownhosts, as called by hostkeys.go
\* ------------------------------------------------------------------------
\* Normalize that forgets the port
NormalizeDropsPort(address) ==
    IF SplitHostPort(address).ok THEN SplitHostPort(address).host ELSE address

\* knownhosts.Normalize: the host pattern written for an address
Normalize(address) ==
    LET hp   == SplitHostPort(address)
        host == IF hp.ok THEN hp.host ELSE address
        port == IF hp.ok THEN hp.port ELSE Port22
    IN  IF port # Port22 THEN <<"[">> \o host \o <<"]", ":">> \o port
        ELSE IF Contains(host, <<":">>) /\ (host = <<>> \/ host[1] # "[")
        THEN <<"[">> \o host \o <<"]">>
        ELSE host

\* knownhosts.Line([]string{hostname}, key)
Line(hostname, key) == Normalize(hostname) \o <<" ">> \o key.type \o <<" ">> \o key.blob

\* knownhosts nextWord: the first word and the trimmed rest
nextWord(line) ==
    LET sp == {i \in 1..Len(line) : line[i] \in {" ", "\t"}} IN
    IF sp = {} THEN <<line, <<>>>>
    ELSE LET i == CHOOSE k \in sp : \A j \in sp : k <= j IN
         <<SubSeq(line, 1, i - 1), TrimSpace(SubSeq(line, i, Len(line)))>>

\* base64 decoding followed by ssh.ParsePublicKey: the key the text encodes
ParsePublicKey(blob) ==
    IF \E k \in Keys : k.blob = blob THEN CHOOSE k \in Keys : k.blob = blob ELSE NoKey

\* knownhosts newHostnameMatcher for one pattern: [ok, host, port]
newHostnameMatcher(pattern) ==
    LET hp == SplitHostPort(pattern) IN
    IF pattern = <<>> THEN [ok |-> FALSE, host |-> <<>>, port |-> <<>>]
    ELSE IF pattern[1] = "[" THEN hp
    ELSE IF hp.ok THEN hp
    ELSE [ok |-> TRUE, host |-> pattern, port |-> Port22]

BadLine == [ok |-> FALSE, host |-> <<>>, port |-> <<>>, key |-> NoKey]

\* hostKeyDB.parseLine: the entry made of a parsed key and a host matcher
dbLine(m, key) ==
    IF key = NoKey \/ ~m.ok THEN BadLine
    ELSE [ok |-> TRUE, host |-> m.host, port |-> m.port, key |-> key]

\* knownhosts parseLine after the host pattern: w is the key type word and the
\* rest; the key type word is ignored, the key blob decides
parseKey(pattern, w) ==
    IF w[2] = <<>> THEN BadLine
    ELSE dbLine(newHostnameMatcher(pattern), ParsePublicKey(nextWord(w[2])[1]))

\* knownhosts parseLine after the first word: w is the host pattern and the rest
parseHost(w) ==
    IF w[2] = <<>> THEN BadLine ELSE parseKey(w[1], nextWord(w[2]))

\* knownhosts parseLine and hostKeyDB.parseLine on one trimmed line:
\* [ok, host, port, key]
parseLine(line) == parseHost(nextWord(line))

\* hostKeyDB.Read: blank lines and comments are skipped
RECURSIVE ReadLines(_)
ReadLines(lines) ==
    IF lines = <<>> THEN <<>>
    ELSE LET t == TrimSpace(Head(lines)) IN
         IF t = <<>> \/ t[1] = "#" THEN ReadLines(Tail(lines))
         ELSE <<parseLine(t)>> \o ReadLines(Tail(lines))

\* knownhosts.New(path): [ok, lines]; one line that does not parse fails the load
NewDB(ls) == [ok |-> \A i \in 1..Len(ls) : ls[i].ok, lines |-> ls]

New(data) == NewDB(ReadLines(ScanLines(data)))

\* checkAddr that takes the keys of every line, whatever host it is of
knownKeysOfAnyHost(db, host, port) == { db[i].key : i \in 1..Len(db) }

\* hostKeyDB.checkAddr: for each key type the first line matching the address
knownKeys(db, host, port) ==
    LET hit(i) == db[i].host = host /\ db[i].port = port IN
    { db[i].key : i \in { n \in 1..Len(db) :
          hit(n) /\ \A j \in 1..(n - 1) : ~(hit(j) /\ db[j].key.type = db[n].key.type) } }

\* hostKeyDB.check: "ok", "unknown" (KeyError, empty Want),
\* "mismatch" (KeyError, Want not empty) or "other" (no KeyError)
check(db, hostname, key) ==
    LET hp   == SplitHostPort(hostname)
        want == knownKeys(db, hp.host, hp.port)
    IN  IF ~hp.ok THEN "other"
        ELSE IF want = {} THEN "unknown"
        ELSE IF key \in want THEN "ok"
        ELSE "mismatch"

\* ------------------------------------------------------------------------
\* State
\* ------------------------------------------------------------------------
VARIABLES
    knownHostsExists,   \* the known_hosts file exists
    knownHosts,         \* the bytes of the known_hosts file
    conn,               \* the Client's connection: phase and host key verdict
    last                \* the last call made and what it returned

\* the variables of the trust store and of the SSH client
svars == <<knownHostsExists, knownHosts, conn, last>>

VARIABLES
    registry,           \* Registry.backends: the names registered
    backends,           \* DetectBest: the slice of backends, sorted
    task,               \* DetectBest: the goroutine started for each backend
    results,            \* DetectBest: the results channel
    agg,                \* DetectBest: the collecting loop and what it returned
    ctxDone             \* the context passed to DetectBest is cancelled

\* the variables of backend detection
dvars == <<registry, backends, task, results, agg, ctxDone>>

VARIABLES
    sel,                \* the last call of Detector.SelectBackend
    res                 \* the last call of Detector.ResolveHost

VARIABLES
    lists,              \* the last call of Registry.List and the one before
    report,             \* the last call of HealthCheck or DetectAll
    mesh                \* the last call made on a mesh backend

VARIABLES
    table,              \* a Registry of backend values and the last Get on it
    prints,             \* the calls of GetKeyFingerprint and what they returned
    procs,              \* two invocations of the tool at work on known_hosts
    config              \* a Config and the last call made on it

\* the variables of the registry of values, of the fingerprints, of the
\* invocations and of the Config
nvars == <<table, prints, procs, config>>

\* the variables of the calls that read the registry and the backends
ovars == <<lists, report, mesh, table, prints, procs, config>>

\* the variables of the calls made on the Detector and on what it uses
cvars == <<sel, res, lists, report, mesh, table, prints, procs, config>>

vars == <<knownHostsExists, knownHosts, conn, last,
          registry, backends, task, results, agg, ctxDone, sel, res,
          lists, report, mesh, table, prints, procs, config>>

\* ------------------------------------------------------------------------
\* Inputs: answers typed at the prompt, and file system faults
\* ------------------------------------------------------------------------
\* reader.ReadString('\n'): the text read and whether it ended in an error
Responses ==
    { [text |-> <<"y", "e", "s", NL>>, err |-> FALSE],
      [text |-> <<"Y", "E", "S", NL>>, err |-> FALSE],
      [text |-> <<"n", "o", NL>>, err |-> FALSE],
      [text |-> <<"y", "e", "s">>, err |-> TRUE] }

\* the system call that fails during one call, if the call reaches it:
\* MkdirAll (GetKnownHostsPath), the OpenFile that creates the file,
\* knownhosts.New, AddKnownHost's OpenFile, the write
LoadFaults == {"mkdir", "create", "open"}
AddFaults == {"openAdd", "write"}
Faults == {"none"} \cup LoadFaults \cup AddFaults

\* An answer is drawn only for a call that reads it, and a fault only for a
\* call that reaches the failing system call; the other combinations return
\* what one of these returns.
Reached(resp, fs) ==
    /\ fs \in LoadFaults => resp = [text |-> <<"n", "o", NL>>, err |-> FALSE]
    /\ fs \in AddFaults => ~resp.err /\ ToLower(TrimSpace(resp.text)) = <<"y", "e", "s">>

\* the file stays within the bounds of the model
WithinBounds(data) == Cardinality(Positions(data, NL)) <= MaxLines

\* ------------------------------------------------------------------------
\* hostkeys.go
\* ------------------------------------------------------------------------
\* hostkeys.go:206-214: the lines that do not contain the hostname
RECURSIVE KeepLines(_, _)
KeepLines(lines, hostname) ==
    IF lines = <<>> THEN <<>>
    ELSE IF Contains(Head(lines), hostname) THEN KeepLines(Tail(lines), hostname)
    ELSE <<Head(lines)>> \o KeepLines(Tail(lines), hostname)

\* hostkeys.go:47-52: what LoadKnownHosts returns after knownhosts.New
Loaded(db) ==
    IF ~db.ok THEN [ok |-> FALSE, exists |-> TRUE, db |-> <<>>, fs |-> "none"]
    ELSE [ok |-> TRUE, exists |-> TRUE, db |-> db.lines, fs |-> "none"]

\* LoadKnownHosts: [ok, exists, db, fs]; creates the file when it is missing
LoadKnownHosts(exists, data, fs) ==
    IF fs = "mkdir"
    THEN [ok |-> FALSE, exists |-> exists, db |-> <<>>, fs |-> fs]
    ELSE IF ~exists /\ fs = "create"
    THEN [ok |-> FALSE, exists |-> exists, db |-> <<>>, fs |-> fs]
    ELSE IF fs = "open"
    THEN [ok |-> FALSE, exists |-> TRUE, db |-> <<>>, fs |-> fs]
    ELSE Loaded(New(data))

\* AddKnownHost: [err, exists, data, fs]
AddKnownHost(exists, data, hostname, key, fs) ==
    LET text == Line(hostname, key) \o <<NL>> IN
    IF fs = "openAdd"
    THEN [err |-> TRUE, exists |-> exists, data |-> data, fs |-> fs]
    ELSE IF fs = "write"
    THEN [err |-> TRUE, exists |-> TRUE, data |-> data, fs |-> fs]
    ELSE [err |-> FALSE, exists |-> TRUE, data |-> data \o text, fs |-> "none"]

\* SaysYes that takes every answer but an empty one for a yes
SaysAnything(text) == TrimSpace(text) # <<>>

\* hostkeys.go:96-97: the answer counts as acceptance
SaysYes(text) == ToLower(TrimSpace(text)) = <<"y", "e", "s">>

\* Added with the error of AddKnownHost dropped
AddedIgnoresError(add) ==
    [err |-> "nil", prompted |-> TRUE, known |-> "unknown",
     exists |-> add.exists, data |-> add.data, fs |-> add.fs]

\* hostkeys.go:102-107: what the callback returns after AddKnownHost
Added(add) ==
    [err |-> IF add.err THEN "addErr" ELSE "nil", prompted |-> TRUE,
     known |-> "unknown", exists |-> add.exists, data |-> add.data, fs |-> add.fs]

\* hostkeys.go:84-107: the host is unknown, ask the user
UnknownHost(exists, data, hostname, key, resp, fs) ==
    IF resp.err
    THEN [err |-> "inputErr", prompted |-> TRUE, known |-> "unknown",
          exists |-> exists, data |-> data, fs |-> "none"]
    ELSE IF ~SaysYes(resp.text)
    THEN [err |-> "rejected", prompted |-> TRUE, known |-> "unknown",
          exists |-> exists, data |-> data, fs |-> "none"]
    ELSE Added(AddKnownHost(exists, data, hostname, key, fs))

\* KeyMismatch with the stored key silently replaced by the presented one
KeyMismatchUpdates(exists, data, hostname, key, resp, fs) ==
    [err |-> "nil", prompted |-> FALSE, known |-> "mismatch", exists |-> exists,
     data |-> JoinLines(KeepLines(ScanLines(data), Normalize(hostname)))
              \o <<NL>> \o Line(hostname, key) \o <<NL>>,
     fs |-> "none"]

\* KeyMismatch handled like a first contact: the user is asked
KeyMismatchAsks(exists, data, hostname, key, resp, fs) ==
    UnknownHost(exists, data, hostname, key, resp, fs)

\* FormatFingerprint that marks the key of a store that holds entries
FormatFingerprintOfStore(key) ==
    [sha256 |-> key.type \o key.blob,
     md5 |-> IF knownHosts = <<>> THEN key.type \o key.blob ELSE <<"k">> \o key.blob]

\* FormatFingerprint: the SHA256 and the MD5 of key.Marshal(), each taken to
\* tell the keys of the model apart
FormatFingerprint(key) ==
    [sha256 |-> key.type \o key.blob, md5 |-> key.type \o key.blob]

\* hostkeys.go:74-82: a key is stored for the host and it is not this one;
\* shown: the fingerprints the message of the error holds
KeyMismatch(exists, data, hostname, key, resp, fs) ==
    [err |-> "mismatch", prompted |-> FALSE, known |-> "mismatch",
     exists |-> exists, data |-> data, fs |-> "none",
     shown |-> {FormatFingerprint(key)}]

\* hostkeys.go:66-111: r is what the knownhosts callback returned
Checked(r, data, hostname, key, resp, fs) ==
    IF r = "ok"
    THEN [err |-> "nil", prompted |-> FALSE, known |-> "ok",
          exists |-> TRUE, data |-> data, fs |-> "none"]
    ELSE IF r = "mismatch" THEN KeyMismatch(TRUE, data, hostname, key, resp, fs)
    ELSE IF r = "unknown" THEN UnknownHost(TRUE, data, hostname, key, resp, fs)
    ELSE [err |-> "otherErr", prompted |-> FALSE, known |-> "other",
          exists |-> TRUE, data |-> data, fs |-> "none"]

\* LoadedCallback that goes on without a trust store when loading failed
LoadedCallbackFailsOpen(ld, data, hostname, key, resp, fs) ==
    IF ~ld.ok
    THEN [err |-> "nil", prompted |-> FALSE, known |-> "none",
          exists |-> ld.exists, data |-> data, fs |-> ld.fs]
    ELSE Checked(check(ld.db, hostname, key), data, hostname, key, resp, fs)

\* hostkeys.go:59-66: ld is what LoadKnownHosts returned
LoadedCallback(ld, data, hostname, key, resp, fs) ==
    IF ~ld.ok
    THEN [err |-> "loadErr", prompted |-> FALSE, known |-> "none",
          exists |-> ld.exists, data |-> data, fs |-> ld.fs]
    ELSE Checked(check(ld.db, hostname, key), data, hostname, key, resp, fs)

\* hostkeys.go:57-112, the callback NewHostKeyCallback returns:
\* [err, prompted, known, exists, data, fs]
HostKeyCallback(exists, data, hostname, key, resp, fs) ==
    LoadedCallback(LoadKnownHosts(exists, data, fs), data, hostname, key, resp, fs)

\* hostkeys.go:186: r is what the knownhosts callback returned
VerifyChecked(r) ==
    [err |-> IF r = "ok" THEN "nil" ELSE IF r = "other" THEN "otherErr" ELSE "keyErr",
     known |-> r, exists |-> TRUE, fs |-> "none"]

\* hostkeys.go:178-186: ld is what LoadKnownHosts returned
VerifyLoaded(ld, hostname, key) ==
    IF ~ld.ok
    THEN [err |-> "loadErr", known |-> "none", exists |-> ld.exists, fs |-> ld.fs]
    ELSE VerifyChecked(check(ld.db, hostname, key))

\* VerifyHostKey: [err, known, exists, fs]
VerifyHostKey(exists, data, hostname, key, fs) ==
    VerifyLoaded(LoadKnownHosts(exists, data, fs), hostname, key)

\* RemoveKnownHost: [err, data, fs]; os.WriteFile truncates before it writes
RemoveKnownHost(exists, data, hostname, fs) ==
    LET new == JoinLines(KeepLines(ScanLines(data), hostname)) \o <<NL>> IN
    IF fs = "mkdir" THEN [err |-> TRUE, data |-> data, fs |-> fs]
    ELSE IF ~exists THEN [err |-> FALSE, data |-> data, fs |-> "none"]
    ELSE IF fs = "open" THEN [err |-> TRUE, data |-> data, fs |-> fs]
    ELSE IF fs = "write" THEN [err |-> TRUE, data |-> <<>>, fs |-> fs]
    ELSE [err |-> FALSE, data |-> new, fs |-> "none"]

\* ------------------------------------------------------------------------
\* GetKeyFingerprint
\* ------------------------------------------------------------------------
\* what the calls of GetKeyFingerprint have returned so far: for each key
\* the fingerprints, and whether the known_hosts file held an entry then
NoPrints == [key \in Keys |-> [seen |-> {}, stored |-> {}]]

NoFingerprint == [sha256 |-> <<>>, md5 |-> <<>>]

\* GetKeyFingerprint of a key file that holds this key: [fingerprint, err];
\* fs is the step that fails, os.ReadFile or ssh.ParsePrivateKey
GetKeyFingerprint(key, fs) ==
    IF fs = "read" THEN [fingerprint |-> NoFingerprint, err |-> "readErr"]
    ELSE IF fs = "parse" THEN [fingerprint |-> NoFingerprint, err |-> "parseErr"]
    ELSE [fingerprint |-> FormatFingerprint(key), err |-> "nil"]

\* ------------------------------------------------------------------------
\* The SSH client (NewClient, Client.Connect)
\* ------------------------------------------------------------------------
\* ssh.InsecureIgnoreHostKey in place of the callback
InsecureIgnoreHostKey(exists, data, hostname, key, resp, fs) ==
    [err |-> "nil", prompted |-> FALSE, known |-> "none",
     exists |-> exists, data |-> data, fs |-> "none"]

\* NewClient: the callback put in ssh.ClientConfig.HostKeyCallback
ClientHostKeyCallback(exists, data, hostname, key, resp, fs) ==
    HostKeyCallback(exists, data, hostname, key, resp, fs)

NoConn == [phase |-> "none", known |-> "none", err |-> "none", offered |-> FALSE]

\* ------------------------------------------------------------------------
\* What a run records of its last call
\* ------------------------------------------------------------------------
Range(seq) == {seq[i] : i \in 1..Len(seq)}

\* the entry AddKnownHost writes for each hostname and key
LineOf == [hostname \in Hostnames, key \in Keys |-> Line(hostname, key)]

\* the keys whose entry for the hostname is among the lines
KeysIn(lines, hostname) == {k \in Keys : LineOf[hostname, k] \in lines}

\* the keys the file holds an entry for under the hostname
StoredKeys(data, hostname) == KeysIn(Range(ScanLines(data)), hostname)

\* what the text of the file says of a hostname and a key: the key is stored
\* for the hostname ("this"), only other keys are ("other"), or none is ("none")
SaidOf(keys, key) ==
    IF key \in keys THEN "this" ELSE IF keys # {} THEN "other" ELSE "none"

Stored(data, hostname, key) == SaidOf(StoredKeys(data, hostname), key)

\* the answers that accept the host
AcceptAnswers ==
    {r \in Responses : ~r.err /\ r.text \in {<<"y", "e", "s", NL>>,
                                            <<"Y", "E", "S", NL>>}}

\* op: the function called; err, known, prompted, fs: what it returned and did;
\* wrote: the file's text changed; again: the call repeats the acceptance
\* just made; pre, post: Stored before and after; accept: the answer drawn;
\* kept: the entries of the other hosts are as they were; elsewhere: the
\* key was stored for another host before the call
NoCall == [op |-> "none", err |-> "none", known |-> "none", prompted |-> FALSE,
           wrote |-> FALSE, fs |-> "none", again |-> FALSE,
           pre |-> "na", post |-> "na", accept |-> FALSE, kept |-> TRUE,
           elsewhere |-> FALSE]

\* the key is stored for an address other than this one
StoredElsewhere(data, hostname, key) ==
    \E a \in Addresses \ {hostname} : key \in StoredKeys(data, a)

\* the names RemoveKnownHost is called with: a host, or a host and its port
RemoveNames == Hosts \cup Addresses

\* the addresses of the host a name is of
AddressesOf(hostname) ==
    {a \in Addresses : a = hostname \/ SplitHostPort(a).host = hostname}

\* what the text of the file says of a name: "other" when a key is stored
\* for an address of its host, "none" when none is
SaidOfName(data, hostname) ==
    IF \E a \in AddressesOf(hostname) : StoredKeys(data, a) # {}
    THEN "other" ELSE "none"

\* the keys stored for the addresses of the other hosts are the same in both
SameForOthers(data, new, hostname) ==
    \A a \in Addresses \ AddressesOf(hostname) :
        StoredKeys(data, a) = StoredKeys(new, a)

\* ------------------------------------------------------------------------
\* Backends and the registry (internal/backend)
\* ------------------------------------------------------------------------
\* Backend.Name() of the four backends NewRegistry registers
BackendNames == {"lan", "tailscale", "headscale", "netbird"}

\* Backend.Priority()
Priority(b) ==
    CASE b = "lan" -> 10
      [] b = "tailscale" -> 40
      [] b = "headscale" -> 40
      [] b = "netbird" -> 50

NoBackend == "nil"

\* the arrangements of a set of backends in a slice
Slices(names) ==
    {s \in [1..Cardinality(names) -> names] :
        \A i, j \in 1..Cardinality(names) : i # j => s[i] # s[j]}

\* sort.Slice with Priority(i) > Priority(j) on a slice of these backends,
\* in whatever order it held them: sort.Slice is not stable, so backends of
\* equal priority end in any order
SortSlice(names) ==
    {s \in Slices(names) :
        \A i, j \in 1..Len(s) : i < j => Priority(s[i]) >= Priority(s[j])}

\* a goroutine of DetectBest: where it is and its backendResult; asked are
\* the calls it made on its backend, sent the results it put on the channel
NoTask == [pc |-> "none", available |-> FALSE, connected |-> FALSE,
           asked |-> <<>>, sent |-> 0]
NewTask == [pc |-> "IsAvailable", available |-> FALSE, connected |-> FALSE,
            asked |-> <<>>, sent |-> 0]

\* the collecting loop: i, availableBackends, connectedBackend, and the
\* backend and error returned; interrupted records that the context was
\* cancelled while the loop still had results to collect, collected the
\* backends whose result the loop has taken
NoDetect == [pc |-> "idle", i |-> 0, availableBackends |-> <<>>,
             connectedBackend |-> NoBackend, backend |-> NoBackend, err |-> "none",
             interrupted |-> FALSE, collected |-> {}]

\* a call of SelectBackend: the preference given, the backends it called
\* IsAvailable on itself, the answer, and the backend and error returned
NoSelect == [pc |-> "idle", preference |-> "none", probed |-> {},
             available |-> FALSE, backend |-> NoBackend, err |-> "none"]

\* a call of ResolveHost: the backend and hostname given, the errors of the
\* backend's GetPeerIP and of the LAN fallback ("none" when it was not
\* called), the address and error returned, and the answer the DNS had
\* ready
NoResolve == [backend |-> "none", hostname |-> "none", peer |-> "none",
              lan |-> "none", ip |-> "none", err |-> "none", dns |-> "none"]

\* the calls of Registry.List: the registry at the last call, the slice it
\* returned, the slice of the call before when the registry was the same,
\* and how many of the two were made (0, 1 or 2)
NoList == [reg |-> {}, cur |-> <<>>, prev |-> <<>>, calls |-> 0]

\* a call of HealthCheck or DetectAll
NoReport == [op |-> "none"]

\* a call made on a mesh backend
NoMesh == [op |-> "none"]

\* the two invocations of the tool
Procs == {1, 2}

\* an invocation: where it is, what it was started for (op, hostname, key),
\* what the callback found when it loaded the file, the bytes RemoveKnownHost
\* read, and the error returned
NoProc == [pc |-> "idle", op |-> "none", hostname |-> <<>>, key |-> NoKey,
           known |-> "none", read |-> <<>>, err |-> "none"]

\* the profiles a Config is given: *Profile values
Profiles == {"p1", "p2"}

\* NewConfig: no current profile, an empty map of profiles; and the last
\* call made on the Config: its name, the name given, whether it returned
\* an error, and CurrentProfile and Profiles as they were before it
NewConfig == [CurrentProfile |-> "", Profiles |-> {},
              op |-> "none", name |-> "", err |-> FALSE,
              wasCurrent |-> "", wasProfiles |-> {}]

\* the most calls of Register made on one Registry
MaxRegistered == 3

\* the Backend values given to Register: two of each name
Instances == [name : {"lan", "mock"}, id : 1..2]
NoInstance == [name |-> "", id |-> 0]

\* a Registry made with an empty map: the values Register was given, in
\* order, the map, and the last Get with the slice List returned with it
NoTable == [log |-> <<>>, backends |-> {}, op |-> "none", name |-> "",
            ok |-> FALSE, backend |-> NoInstance, list |-> <<>>]

\* ------------------------------------------------------------------------
\* Actions
\* ------------------------------------------------------------------------
Init ==
    /\ knownHostsExists = FALSE
    /\ knownHosts = <<>>
    /\ conn = NoConn
    /\ last = NoCall
    /\ registry = {}
    /\ backends = <<>>
    /\ task = [b \in BackendNames |-> NoTask]
    /\ results = <<>>
    /\ agg = NoDetect
    /\ ctxDone = FALSE
    /\ sel = NoSelect
    /\ res = NoResolve
    /\ lists = NoList
    /\ report = NoReport
    /\ mesh = NoMesh
    /\ table = NoTable
    /\ prints = NoPrints
    /\ procs = [p \in Procs |-> NoProc]
    /\ config = NewConfig

\* the entry the call before this one appended, when that call was a
\* verification of an unknown host that the user accepted
JustAccepted(hostname, key) ==
    /\ last.op = "verify" /\ last.err = "nil" /\ last.prompted
    /\ LET ls == ScanLines(knownHosts) IN
       ls # <<>> /\ ls[Len(ls)] = LineOf[hostname, key]

\* one call of the host key callback on the known_hosts file
Verified(out, hostname, key, resp) ==
    /\ WithinBounds(out.data)
    /\ knownHostsExists' = out.exists
    /\ knownHosts' = out.data
    /\ last' = [op |-> "verify", err |-> out.err, known |-> out.known,
                prompted |-> out.prompted, wrote |-> out.data # knownHosts,
                fs |-> out.fs, again |-> JustAccepted(hostname, key),
                pre |-> Stored(knownHosts, hostname, key),
                post |-> Stored(out.data, hostname, key),
                accept |-> resp \in AcceptAnswers, kept |-> TRUE,
                elsewhere |-> FALSE]

Verify(hostname, key, resp, fs) ==
    Verified(ClientHostKeyCallback(knownHostsExists, knownHosts,
                                   hostname, key, resp, fs),
             hostname, key, resp)

\* the host key callback called for a server: any address, any presented key
VerifyServer ==
    /\ \E hostname \in Addresses, key \in Keys, resp \in Responses, fs \in Faults :
         Reached(resp, fs) /\ Verify(hostname, key, resp, fs)
    /\ UNCHANGED conn
    /\ UNCHANGED dvars
    /\ UNCHANGED cvars

AddReturned(out) ==
    /\ WithinBounds(out.data)
    /\ knownHostsExists' = out.exists
    /\ knownHosts' = out.data
    /\ last' = [NoCall EXCEPT !.op = "add",
                              !.err = IF out.err THEN "addErr" ELSE "nil",
                              !.wrote = out.data # knownHosts, !.fs = out.fs]

CallAddKnownHost ==
    \E hostname \in Addresses, key \in Keys, fs \in {"none"} \cup AddFaults :
      /\ AddReturned(AddKnownHost(knownHostsExists, knownHosts, hostname, key, fs))
      /\ UNCHANGED conn
      /\ UNCHANGED dvars
      /\ UNCHANGED cvars

RemoveReturned(out) ==
    /\ knownHosts' = out.data
    /\ last' = [NoCall EXCEPT !.op = "remove",
                              !.err = IF out.err THEN "removeErr" ELSE "nil",
                              !.wrote = out.data # knownHosts, !.fs = out.fs]

CallRemoveKnownHost ==
    \E hostname \in Hosts, fs \in {"none", "mkdir", "open", "write"} :
      /\ RemoveReturned(RemoveKnownHost(knownHostsExists, knownHosts, hostname, fs))
      /\ UNCHANGED <<knownHostsExists, conn>>
      /\ UNCHANGED dvars
      /\ UNCHANGED cvars

VerifyReturned(out) ==
    /\ knownHostsExists' = out.exists
    /\ last' = [NoCall EXCEPT !.op = "check", !.err = out.err,
                              !.known = out.known, !.fs = out.fs]

CallVerifyHostKey ==
    \E hostname \in Hostnames, key \in Keys, fs \in {"none", "open"} :
      /\ VerifyReturned(VerifyHostKey(knownHostsExists, knownHosts, hostname, key, fs))
      /\ UNCHANGED <<knownHosts, conn>>
      /\ UNCHANGED dvars
      /\ UNCHANGED cvars

Next ==
    \/ VerifyServer
    \/ CallAddKnownHost
    \/ CallRemoveKnownHost
    \/ CallVerifyHostKey

Spec == Init /\ [][Next]_vars

\* ------------------------------------------------------------------------
\* The calls of GetKeyFingerprint beside a known_hosts file that changes
\* ------------------------------------------------------------------------
\* the fingerprint of a call that returned no error is kept
Printed(out, key) ==
    prints' = IF out.err # "nil" THEN prints
              ELSE [prints EXCEPT ![key].seen = @ \cup {out.fingerprint},
                                  ![key].stored = @ \cup {knownHosts # <<>>}]

\* GetKeyFingerprint called on a key file
CallGetKeyFingerprint ==
    /\ \E key \in Keys, fs \in {"none", "read", "parse"} :
         Printed(GetKeyFingerprint(key, fs), key)
    /\ UNCHANGED <<sel, res, lists, report, mesh, table, procs, config>>
    /\ UNCHANGED dvars
    /\ UNCHANGED svars

FingerprintNext ==
    \/ CallAddKnownHost
    \/ CallRemoveKnownHost
    \/ CallGetKeyFingerprint

FingerprintSpec == Init /\ [][FingerprintNext]_vars

\* ------------------------------------------------------------------------
\* Two invocations of the tool at work on one known_hosts file
\* ------------------------------------------------------------------------
\* what an invocation leaves unchanged beside known_hosts and procs
RaceUnchanged ==
    /\ UNCHANGED <<conn, last>>
    /\ UNCHANGED dvars
    /\ UNCHANGED <<sel, res, lists, report, mesh, table, prints, config>>

\* AddKnownHost called before the two invocations start
AddBefore ==
    /\ \A p \in Procs : procs[p].pc = "idle"
    /\ CallAddKnownHost

\* hostkeys.go:58-91: an invocation connects to a server; the callback loads
\* the file and checks the key: a known host returns here, the user is
\* asked about an unknown one
StartVerify ==
    /\ \E p \in Procs, hostname \in Addresses, key \in Keys,
          ld \in {LoadKnownHosts(knownHostsExists, knownHosts, "none")} :
         /\ procs[p].pc = "idle"
         /\ knownHostsExists' = ld.exists
         /\ \E r \in {IF ~ld.ok THEN "loadErr" ELSE check(ld.db, hostname, key)} :
              procs' = [procs EXCEPT ![p] =
                  [NoProc EXCEPT !.pc = IF r = "unknown" THEN "prompt" ELSE "done",
                                 !.op = "verify", !.hostname = hostname,
                                 !.key = key, !.known = r,
                                 !.err = CASE r = "unknown" -> "none"
                                           [] r = "ok" -> "nil"
                                           [] OTHER -> r]]
    /\ UNCHANGED knownHosts
    /\ RaceUnchanged

\* hostkeys.go:90-99: the answer of the user is read
Answer ==
    /\ \E p \in Procs, resp \in Responses :
         /\ procs[p].pc = "prompt"
         /\ procs' = IF resp.err
                     THEN [procs EXCEPT ![p].pc = "done", ![p].err = "inputErr"]
                     ELSE IF ~SaysYes(resp.text)
                     THEN [procs EXCEPT ![p].pc = "done", ![p].err = "rejected"]
                     ELSE [procs EXCEPT ![p].pc = "add"]
    /\ UNCHANGED <<knownHostsExists, knownHosts>>
    /\ RaceUnchanged

\* hostkeys.go:102-107: AddKnownHost appends to the file as it is now
AppendEntry ==
    /\ \E p \in Procs :
         /\ procs[p].pc = "add"
         /\ \E add \in {AddKnownHost(knownHostsExists, knownHosts,
                                      procs[p].hostname, procs[p].key, "none")} :
              /\ WithinBounds(add.data)
              /\ knownHostsExists' = add.exists
              /\ knownHosts' = add.data
              /\ procs' = [procs EXCEPT ![p].pc = "done", ![p].err = Added(add).err]
    /\ RaceUnchanged

\* hostkeys.go:196-218: RemoveKnownHost opens the file and reads its lines
StartRemove ==
    /\ \E p \in Procs, hostname \in Hosts :
         /\ procs[p].pc = "idle"
         /\ procs' = [procs EXCEPT ![p] =
                [NoProc EXCEPT !.pc = IF knownHostsExists THEN "write" ELSE "done",
                               !.op = "remove", !.hostname = hostname,
                               !.read = knownHosts,
                               !.err = IF knownHostsExists THEN "none" ELSE "nil"]]
    /\ UNCHANGED <<knownHostsExists, knownHosts>>
    /\ RaceUnchanged

\* hostkeys.go:220-223: os.WriteFile of the lines kept, those of the bytes
\* that were read
WriteBack ==
    /\ \E p \in Procs :
         /\ procs[p].pc = "write"
         /\ knownHosts' = RemoveKnownHost(TRUE, procs[p].read,
                                          procs[p].hostname, "none").data
         /\ procs' = [procs EXCEPT ![p].pc = "done", ![p].err = "nil"]
    /\ UNCHANGED knownHostsExists
    /\ RaceUnchanged

RaceNext ==
    \/ AddBefore
    \/ StartVerify
    \/ Answer
    \/ AppendEntry
    \/ StartRemove
    \/ WriteBack

RaceSpec == Init /\ [][RaceNext]_vars

\* ------------------------------------------------------------------------
\* Verification of one host beside the entries of another
\* ------------------------------------------------------------------------
\* Verified, recording whether the key presented was stored for another
\* host before the call (elsewhere) and whether the other hosts kept their
\* entries (kept)
VerifyObserved(out, hostname, key, resp) ==
    /\ WithinBounds(out.data)
    /\ knownHostsExists' = out.exists
    /\ knownHosts' = out.data
    /\ last' = [op |-> "verify", err |-> out.err, known |-> out.known,
                prompted |-> out.prompted, wrote |-> out.data # knownHosts,
                fs |-> out.fs, again |-> FALSE,
                pre |-> Stored(knownHosts, hostname, key),
                post |-> Stored(out.data, hostname, key),
                accept |-> resp \in AcceptAnswers,
                kept |-> SameForOthers(knownHosts, out.data, hostname),
                elsewhere |-> StoredElsewhere(knownHosts, hostname, key)]

\* the host key callback called for a server
VerifyHost ==
    /\ \E hostname \in Addresses, key \in Keys, resp \in Responses, fs \in Faults :
         /\ Reached(resp, fs)
         /\ VerifyObserved(ClientHostKeyCallback(knownHostsExists, knownHosts,
                                                 hostname, key, resp, fs),
                           hostname, key, resp)
    /\ UNCHANGED conn
    /\ UNCHANGED dvars
    /\ UNCHANGED cvars

HostNext ==
    \/ VerifyHost
    \/ CallRemoveKnownHost

HostSpec == Init /\ [][HostNext]_vars

\* ------------------------------------------------------------------------
\* Removal, called with any name, and what it leaves in the file
\* ------------------------------------------------------------------------
\* RemoveReturned, recording what the file holds after the call for the
\* name removed (post) and whether the other hosts kept their entries (kept)
RemoveObserved(out, hostname) ==
    /\ knownHosts' = out.data
    /\ last' = [NoCall EXCEPT !.op = "remove",
                              !.err = IF out.err THEN "removeErr" ELSE "nil",
                              !.wrote = out.data # knownHosts, !.fs = out.fs,
                              !.post = SaidOfName(out.data, hostname),
                              !.kept = SameForOthers(knownHosts, out.data, hostname)]

\* RemoveKnownHost called with a host, or with a host and its port
RemoveAnyName ==
    \E hostname \in RemoveNames, fs \in {"none", "mkdir", "open", "write"} :
      /\ RemoveObserved(RemoveKnownHost(knownHostsExists, knownHosts, hostname, fs),
                        hostname)
      /\ UNCHANGED <<knownHostsExists, conn>>
      /\ UNCHANGED dvars
      /\ UNCHANGED cvars

RemoveNext ==
    \/ VerifyServer
    \/ CallAddKnownHost
    \/ RemoveAnyName

RemoveSpec == Init /\ [][RemoveNext]_vars

\* ------------------------------------------------------------------------
\* Client.Connect: dial, key exchange with the host key callback, then auth
\* ------------------------------------------------------------------------
\* Client.Connect up to the key exchange: the TCP connection is made
Dial ==
    /\ conn.phase = "none"
    /\ conn' = [NoConn EXCEPT !.phase = "handshake"]
    /\ UNCHANGED <<knownHostsExists, knownHosts, last>>
    /\ UNCHANGED dvars
    /\ UNCHANGED cvars

\* ssh.NewClientConn calls the host key callback with the dialled address and
\* the key the server presents; an error ends Connect, which closes the connection
Handshake ==
    /\ conn.phase = "handshake"
    /\ \E hostname \in Addresses, key \in Keys, resp \in Responses, fs \in Faults :
         Reached(resp, fs) /\ Verify(hostname, key, resp, fs)
    /\ conn' = [phase |-> IF last'.err = "nil" THEN "auth" ELSE "none",
                known |-> last'.known, err |-> last'.err, offered |-> FALSE]
    /\ UNCHANGED dvars
    /\ UNCHANGED cvars

\* ssh.NewClientConn after the key exchange: the auth methods are tried
Authenticate ==
    /\ conn.phase = "auth"
    /\ \E ok \in BOOLEAN :
         conn' = [conn EXCEPT !.phase = IF ok THEN "connected" ELSE "none",
                              !.offered = TRUE]
    /\ UNCHANGED <<knownHostsExists, knownHosts, last>>
    /\ UNCHANGED dvars
    /\ UNCHANGED cvars

\* Client.Close
Close ==
    /\ conn.phase = "connected"
    /\ conn' = NoConn
    /\ UNCHANGED <<knownHostsExists, knownHosts, last>>
    /\ UNCHANGED dvars
    /\ UNCHANGED cvars

ConnNext ==
    \/ Dial
    \/ Handshake
    \/ Authenticate
    \/ Close
    \/ CallRemoveKnownHost

ConnSpec == Init /\ [][ConnNext]_vars

\* ------------------------------------------------------------------------
\* Detector.DetectBest: one goroutine for each backend, one collecting loop
\* ------------------------------------------------------------------------
\* Registry.Register: the map entry of the backend's name is set; the
\* registry is filled before the Detector is called
Register ==
    /\ agg.pc = "idle"
    /\ sel.pc = "idle"
    /\ \E b \in BackendNames : registry' = registry \cup {b}
    /\ UNCHANGED <<backends, task, results, agg, ctxDone>>
    /\ UNCHANGED svars
    /\ UNCHANGED cvars

\* DetectBest up to the collecting loop: the list is taken and sorted, the
\* channel made, a goroutine started for each backend
StartDetectBest ==
    /\ agg.pc = "idle"
    /\ \E sorted \in SortSlice(registry) : backends' = sorted
    /\ task' = [b \in BackendNames |-> IF b \in registry THEN NewTask ELSE NoTask]
    /\ results' = <<>>
    /\ agg' = [NoDetect EXCEPT !.pc = "collect",
                               !.interrupted = ctxDone /\ registry # {}]
    /\ UNCHANGED <<registry, ctxDone>>

\* DetectBest called on the Detector
CallDetectBest ==
    /\ sel.pc = "idle"
    /\ StartDetectBest
    /\ UNCHANGED svars
    /\ UNCHANGED cvars

\* the goroutine: result.available = b.IsAvailable(ctx)
IsAvailable ==
    /\ \E b \in registry, answer \in BOOLEAN :
         /\ task[b].pc = "IsAvailable"
         /\ task' = [task EXCEPT ![b].available = answer,
                                 ![b].asked = Append(@, "IsAvailable"),
                                 ![b].pc = IF answer THEN "IsConnected" ELSE "send"]
    /\ UNCHANGED <<registry, backends, results, agg, ctxDone>>
    /\ UNCHANGED svars
    /\ UNCHANGED cvars

\* the goroutine: result.connected = b.IsConnected(ctx), when available
IsConnected ==
    /\ \E b \in registry, answer \in BOOLEAN :
         /\ task[b].pc = "IsConnected"
         /\ task' = [task EXCEPT ![b].connected = answer,
                                 ![b].asked = Append(@, "IsConnected"),
                                 ![b].pc = "send"]
    /\ UNCHANGED <<registry, backends, results, agg, ctxDone>>
    /\ UNCHANGED svars
    /\ UNCHANGED cvars

\* a channel made without a buffer size for the goroutines that are late
cap1(bs) == IF bs = <<>> THEN 0 ELSE 1

\* make(chan backendResult, len(backends)): the results the channel holds
cap(bs) == Len(bs)

\* a goroutine that sends its result for as long as the channel takes it
SendAgain ==
    /\ \E b \in registry :
         /\ task[b].pc = "send"
         /\ Len(results) < cap(backends)
         /\ results' = Append(results, [backend |-> b,
                                        available |-> task[b].available,
                                        connected |-> task[b].connected])
         /\ task' = [task EXCEPT ![b].sent = @ + 1]
    /\ UNCHANGED <<registry, backends, agg, ctxDone>>
    /\ UNCHANGED svars
    /\ UNCHANGED cvars

\* the goroutine: results <- result, and the goroutine ends
Send ==
    /\ \E b \in registry :
         /\ task[b].pc = "send"
         /\ Len(results) < cap(backends)
         /\ results' = Append(results, [backend |-> b,
                                        available |-> task[b].available,
                                        connected |-> task[b].connected])
         /\ task' = [task EXCEPT ![b].pc = "done", ![b].sent = @ + 1]
    /\ UNCHANGED <<registry, backends, agg, ctxDone>>
    /\ UNCHANGED svars
    /\ UNCHANGED cvars

\* CollectResult that keeps the first connected backend it is given
CollectFirstConnected(a, result) ==
    IF ~result.available THEN [a EXCEPT !.i = a.i + 1]
    ELSE [a EXCEPT !.i = a.i + 1,
                   !.availableBackends = Append(a.availableBackends, result.backend),
                   !.connectedBackend =
                       IF result.connected /\ a.connectedBackend = NoBackend
                       THEN result.backend
                       ELSE a.connectedBackend]

\* CollectResult that also keeps the backends that are not available
CollectUnavailable(a, result) ==
    [a EXCEPT !.i = a.i + 1,
              !.availableBackends = Append(a.availableBackends, result.backend),
              !.connectedBackend =
                  IF result.connected /\ a.connectedBackend = NoBackend
                  THEN result.backend
                  ELSE IF result.connected
                          /\ Priority(result.backend) > Priority(a.connectedBackend)
                  THEN result.backend
                  ELSE a.connectedBackend]

\* the body of case result := <-results, and i++
CollectResult(a, result) ==
    IF ~result.available THEN [a EXCEPT !.i = a.i + 1]
    ELSE [a EXCEPT !.i = a.i + 1,
                   !.availableBackends = Append(a.availableBackends, result.backend),
                   !.connectedBackend =
                       IF result.connected /\ a.connectedBackend = NoBackend
                       THEN result.backend
                       ELSE IF result.connected
                               /\ Priority(result.backend) > Priority(a.connectedBackend)
                       THEN result.backend
                       ELSE a.connectedBackend]

\* the collecting loop takes a result from the channel
Receive ==
    /\ agg.pc = "collect"
    /\ agg.i < Len(backends)
    /\ results # <<>>
    /\ agg' = [CollectResult(agg, Head(results)) EXCEPT
                   !.collected = @ \cup {Head(results).backend}]
    /\ results' = Tail(results)
    /\ UNCHANGED <<registry, backends, task, ctxDone>>
    /\ UNCHANGED svars
    /\ UNCHANGED cvars

\* a collecting loop whose select has no case <-ctx.Done()
ReturnCancelledNever ==
    /\ FALSE
    /\ UNCHANGED vars

\* the collecting loop takes case <-ctx.Done(): return nil, ctx.Err()
ReturnCancelled ==
    /\ agg.pc = "collect"
    /\ agg.i < Len(backends)
    /\ ctxDone
    /\ agg' = [agg EXCEPT !.pc = "returned", !.backend = NoBackend, !.err = "ctxErr"]
    /\ UNCHANGED <<registry, backends, task, results, ctxDone>>
    /\ UNCHANGED svars
    /\ UNCHANGED cvars

\* Returns without the sort: the available backend that arrived first
ReturnsFirstAvailable(a) ==
    IF a.connectedBackend # NoBackend
    THEN {[backend |-> a.connectedBackend, err |-> "nil"]}
    ELSE IF Len(a.availableBackends) > 0
    THEN {[backend |-> a.availableBackends[1], err |-> "nil"]}
    ELSE {[backend |-> NoBackend, err |-> "noBackends"]}

\* Returns that falls back to the LAN backend when nothing is available
ReturnsFallsBackToLAN(a) ==
    IF a.connectedBackend # NoBackend
    THEN {[backend |-> a.connectedBackend, err |-> "nil"]}
    ELSE IF Len(a.availableBackends) > 0
    THEN {[backend |-> s[1], err |-> "nil"] : s \in SortSlice(Range(a.availableBackends))}
    ELSE {[backend |-> "lan", err |-> "nil"]}

\* what DetectBest returns after the loop: [backend, err]
Returns(a) ==
    IF a.connectedBackend # NoBackend
    THEN {[backend |-> a.connectedBackend, err |-> "nil"]}
    ELSE IF Len(a.availableBackends) > 0
    THEN {[backend |-> s[1], err |-> "nil"] : s \in SortSlice(Range(a.availableBackends))}
    ELSE {[backend |-> NoBackend, err |-> "noBackends"]}

\* err.Error() of what DetectBest returns, word by word: the message of
\* fmt.Errorf at the end of DetectBest, and that of ctx.Err()
ErrorText(err) ==
    CASE err = "noBackends" -> <<"no", "available", "backends", "found">>
      [] err = "ctxErr"     -> <<"context", "canceled">>
      [] OTHER              -> <<>>

\* DetectBest after the loop
Return ==
    /\ agg.pc = "collect"
    /\ agg.i = Len(backends)
    /\ \E r \in Returns(agg) :
         agg' = [agg EXCEPT !.pc = "returned", !.backend = r.backend, !.err = r.err]
    /\ UNCHANGED <<registry, backends, task, results, ctxDone>>
    /\ UNCHANGED svars
    /\ UNCHANGED cvars

\* the caller's context is cancelled, or its deadline passes
Cancel ==
    /\ ~ctxDone
    /\ ctxDone' = TRUE
    /\ agg' = [agg EXCEPT !.interrupted =
                   agg.interrupted \/ (agg.pc = "collect" /\ agg.i < Len(backends))]
    /\ UNCHANGED <<registry, backends, task, results>>
    /\ UNCHANGED svars
    /\ UNCHANGED cvars

DetectNext ==
    \/ Register
    \/ CallDetectBest
    \/ IsAvailable
    \/ IsConnected
    \/ Send
    \/ Receive
    \/ ReturnCancelled
    \/ Return
    \/ Cancel

DetectSpec == Init /\ [][DetectNext]_vars

\* ------------------------------------------------------------------------
\* DetectBest under fair scheduling
\* ------------------------------------------------------------------------
\* the most backends registered when the scheduling is looked at
MaxBackends == 2

\* Registry.Register, up to MaxBackends backends
RegisterFew ==
    /\ \E b \in BackendNames : Cardinality(registry \cup {b}) <= MaxBackends
    /\ Register
    /\ Cardinality(registry') <= MaxBackends

FairNext ==
    \/ RegisterFew
    \/ CallDetectBest
    \/ IsAvailable
    \/ IsConnected
    \/ Send
    \/ Receive
    \/ ReturnCancelled
    \/ Return
    \/ Cancel

\* a goroutine that can send does, and the collecting loop goes on when a
\* case of its select is ready or the loop is over; whether IsAvailable and
\* IsConnected return, and whether the context is cancelled, is left open
FairSpec ==
    /\ Init /\ [][FairNext]_vars
    /\ WF_vars(Send)
    /\ WF_vars(Receive)
    /\ WF_vars(ReturnCancelled)
    /\ WF_vars(Return)

\* ------------------------------------------------------------------------
\* DetectBest on the registry NewRegistry makes
\* ------------------------------------------------------------------------
\* LANBackend.IsAvailable when it is not there to answer
LANIsAvailableNever == FALSE

\* LANBackend.IsAvailable: return true
LANIsAvailable == TRUE

\* NewRegistry: the map is made and the four backends are registered
NewRegistry ==
    /\ agg.pc = "idle"
    /\ sel.pc = "idle"
    /\ registry = {}
    /\ registry' = BackendNames
    /\ UNCHANGED <<backends, task, results, agg, ctxDone>>
    /\ UNCHANGED svars
    /\ UNCHANGED cvars

\* DetectBest of the Registry NewRegistry returned
RegistryDetectBest ==
    /\ registry = BackendNames
    /\ CallDetectBest

\* the goroutine: result.available = b.IsAvailable(ctx) on the backends of
\* NewRegistry; the answer of a mesh backend is that of exec.LookPath
BackendIsAvailable ==
    /\ \E b \in registry, answer \in BOOLEAN :
         /\ task[b].pc = "IsAvailable"
         /\ b = "lan" => answer = LANIsAvailable
         /\ task' = [task EXCEPT ![b].available = answer,
                                 ![b].asked = Append(@, "IsAvailable"),
                                 ![b].pc = IF answer THEN "IsConnected" ELSE "send"]
    /\ UNCHANGED <<registry, backends, results, agg, ctxDone>>
    /\ UNCHANGED svars
    /\ UNCHANGED cvars

RegistryNext ==
    \/ NewRegistry
    \/ RegistryDetectBest
    \/ BackendIsAvailable
    \/ IsConnected
    \/ Send
    \/ Receive
    \/ ReturnCancelled
    \/ Return
    \/ Cancel

RegistrySpec == Init /\ [][RegistryNext]_vars

\* ------------------------------------------------------------------------
\* Detector.SelectBackend
\* ------------------------------------------------------------------------
\* the preferences SelectBackend is called with: the two that mean automatic
\* detection, the names of the backends, a name in other case, an unknown name
Preferences == {"auto", ""} \cup BackendNames \cup {"LAN", "nonexistent"}

\* IsAuto that knows only the word "auto"
IsAutoWordOnly(preference) == preference = "auto"

\* SelectBackend: preference == "auto" || preference == ""
IsAuto(preference) == preference = "auto" \/ preference = ""

\* strings.ToLower of a preference
FoldCase(name) == IF name = "LAN" THEN "lan" ELSE name

\* Get that looks the name up without regard to case
GetFolded(reg, name) ==
    IF FoldCase(name) \in reg THEN [ok |-> TRUE, backend |-> FoldCase(name)]
    ELSE [ok |-> FALSE, backend |-> NoBackend]

\* Registry.Get: [ok, backend]; the map is read with the name as given
Get(reg, name) ==
    IF name \in reg THEN [ok |-> TRUE, backend |-> name]
    ELSE [ok |-> FALSE, backend |-> NoBackend]

\* Named that returns the backend without asking whether it is available
NamedUnasked(g, answer) ==
    IF ~g.ok
    THEN [probed |-> {}, available |-> FALSE, backend |-> NoBackend, err |-> "notFound"]
    ELSE [probed |-> {}, available |-> answer, backend |-> g.backend, err |-> "nil"]

\* SelectBackend after Registry.Get returned g: the error of Get, or
\* IsAvailable of the backend, whose answer decides
Named(g, answer) ==
    IF ~g.ok
    THEN [probed |-> {}, available |-> FALSE, backend |-> NoBackend, err |-> "notFound"]
    ELSE IF ~answer
    THEN [probed |-> {g.backend}, available |-> FALSE,
          backend |-> NoBackend, err |-> "notAvailable"]
    ELSE [probed |-> {g.backend}, available |-> TRUE,
          backend |-> g.backend, err |-> "nil"]

\* SelectBackend with the name of a backend: [probed, available, backend, err]
SelectByName(reg, preference, answer) == Named(Get(reg, preference), answer)

SelectNamedReturned(out, preference) ==
    sel' = [pc |-> "returned", preference |-> preference, probed |-> out.probed,
            available |-> out.available, backend |-> out.backend, err |-> out.err]

\* SelectBackend called with a preference that is not automatic
SelectNamed ==
    /\ sel.pc = "idle"
    /\ agg.pc = "idle"
    /\ \E preference \in Preferences, answer \in BOOLEAN :
         /\ ~IsAuto(preference)
         /\ SelectNamedReturned(SelectByName(registry, preference, answer), preference)
    /\ UNCHANGED res
    /\ UNCHANGED ovars
    /\ UNCHANGED dvars
    /\ UNCHANGED svars

\* SelectBackend called with an automatic preference: it calls DetectBest
SelectAuto ==
    /\ sel.pc = "idle"
    /\ \E preference \in Preferences :
         /\ IsAuto(preference)
         /\ sel' = [NoSelect EXCEPT !.pc = "detect", !.preference = preference]
    /\ StartDetectBest
    /\ UNCHANGED res
    /\ UNCHANGED ovars
    /\ UNCHANGED svars

\* SelectBackend returns what DetectBest returned
SelectReturns ==
    /\ sel.pc = "detect"
    /\ agg.pc = "returned"
    /\ sel' = [sel EXCEPT !.pc = "returned", !.backend = agg.backend, !.err = agg.err]
    /\ UNCHANGED res
    /\ UNCHANGED ovars
    /\ UNCHANGED dvars
    /\ UNCHANGED svars

SelectNext ==
    \/ Register
    \/ SelectNamed
    \/ SelectAuto
    \/ IsAvailable
    \/ IsConnected
    \/ Send
    \/ Receive
    \/ ReturnCancelled
    \/ Return
    \/ Cancel
    \/ SelectReturns

SelectSpec == Init /\ [][SelectNext]_vars

\* ------------------------------------------------------------------------
\* Registry.List
\* ------------------------------------------------------------------------
\* List ranges over the map of backends: each backend once, in the order
\* the iteration of the map takes, which Go leaves unspecified
List(reg) == Slices(reg)

\* Registry.List called
CallList ==
    /\ \E l \in List(registry) :
         lists' = IF lists.calls > 0 /\ lists.reg = registry
                  THEN [reg |-> registry, cur |-> l, prev |-> lists.cur, calls |-> 2]
                  ELSE [reg |-> registry, cur |-> l, prev |-> <<>>, calls |-> 1]
    /\ UNCHANGED <<sel, res, report, mesh>>
    /\ UNCHANGED nvars
    /\ UNCHANGED dvars
    /\ UNCHANGED svars

ListNext ==
    \/ Register
    \/ CallList

ListSpec == Init /\ [][ListNext]_vars

\* ------------------------------------------------------------------------
\* Registry.Register, Registry.Get and Registry.List on backend values
\* ------------------------------------------------------------------------
\* the names Get is called with
LookupNames == {"lan", "mock", "LAN", "nonexistent"}

\* Register that leaves the entry of a name that is there already
RegisteredKeepsFirst(m, backend) ==
    IF \E x \in m : x.name = backend.name THEN m ELSE m \cup {backend}

\* Registry.Register: r.backends[backend.Name()] = backend
Registered(m, backend) ==
    {x \in m : x.name # backend.name} \cup {backend}

\* Registry.Get: [ok, backend] of the map entry of the name as given
Lookup(m, name) ==
    IF \E x \in m : x.name = name
    THEN [ok |-> TRUE, backend |-> CHOOSE x \in m : x.name = name]
    ELSE [ok |-> FALSE, backend |-> NoInstance]

\* Registry.Register called with a Backend value
CallRegister ==
    /\ Len(table.log) < MaxRegistered
    /\ \E backend \in Instances :
         table' = [NoTable EXCEPT !.log = Append(table.log, backend),
                                  !.backends = Registered(table.backends, backend)]
    /\ UNCHANGED <<sel, res, lists, report, mesh, prints, procs, config>>
    /\ UNCHANGED dvars
    /\ UNCHANGED svars

\* Registry.Get called with a name, and Registry.List
CallGet ==
    /\ \E name \in LookupNames, l \in Slices(table.backends) :
         table' = [table EXCEPT !.op = "Get", !.name = name,
                                !.ok = Lookup(table.backends, name).ok,
                                !.backend = Lookup(table.backends, name).backend,
                                !.list = l]
    /\ UNCHANGED <<sel, res, lists, report, mesh, prints, procs, config>>
    /\ UNCHANGED dvars
    /\ UNCHANGED svars

TableNext ==
    \/ CallRegister
    \/ CallGet

TableSpec == Init /\ [][TableNext]_vars

\* ------------------------------------------------------------------------
\* Config: AddProfile, DeleteProfile, SetCurrentProfile
\* ------------------------------------------------------------------------
\* the names the calls are given; the map of profiles is held as the set of
\* its entries [name, profile]
ProfileNames == {"test", "test1", "test2"}
GivenNames == ProfileNames \cup {""}

\* the keys of the map c.Profiles
NamesOf(profiles) == {x.name : x \in profiles}

\* what a call that fails returns: the Config as it was, and the error
Failed(c) ==
    [CurrentProfile |-> c.CurrentProfile, Profiles |-> c.Profiles, err |-> TRUE]

\* Config.AddProfile: [CurrentProfile, Profiles, err]
AddProfile(c, name, profile) ==
    IF name = "" THEN Failed(c)
    ELSE [CurrentProfile |-> IF c.CurrentProfile = "" THEN name ELSE c.CurrentProfile,
          Profiles |-> {x \in c.Profiles : x.name # name}
                           \cup {[name |-> name, profile |-> profile]},
          err |-> FALSE]

\* DeleteProfile that clears CurrentProfile and takes no other profile
DeleteProfileClears(c, name) ==
    IF name \notin NamesOf(c.Profiles) THEN {Failed(c)}
    ELSE {[CurrentProfile |-> IF c.CurrentProfile = name THEN "" ELSE c.CurrentProfile,
           Profiles |-> {x \in c.Profiles : x.name # name},
           err |-> FALSE]}

\* Config.DeleteProfile: what it may leave, [CurrentProfile, Profiles, err];
\* after the current profile is deleted the first name the range over the
\* map gives becomes current, and Go leaves the order of that range open
DeleteProfile(c, name) ==
    LET rest == {x \in c.Profiles : x.name # name} IN
    IF name \notin NamesOf(c.Profiles) THEN {Failed(c)}
    ELSE IF c.CurrentProfile # name
    THEN {[CurrentProfile |-> c.CurrentProfile, Profiles |-> rest, err |-> FALSE]}
    ELSE IF rest = {}
    THEN {[CurrentProfile |-> "", Profiles |-> rest, err |-> FALSE]}
    ELSE {[CurrentProfile |-> n, Profiles |-> rest, err |-> FALSE] : n \in NamesOf(rest)}

\* Config.SetCurrentProfile: [CurrentProfile, Profiles, err]
SetCurrentProfile(c, name) ==
    IF name \notin NamesOf(c.Profiles) THEN Failed(c)
    ELSE [CurrentProfile |-> name, Profiles |-> c.Profiles, err |-> FALSE]

\* a call on the Config returned out
ConfigReturned(op, name, out) ==
    /\ config' = [CurrentProfile |-> out.CurrentProfile, Profiles |-> out.Profiles,
                  op |-> op, name |-> name, err |-> out.err,
                  wasCurrent |-> config.CurrentProfile,
                  wasProfiles |-> config.Profiles]
    /\ UNCHANGED <<sel, res, lists, report, mesh, table, prints, procs>>
    /\ UNCHANGED dvars
    /\ UNCHANGED svars

CallAddProfile ==
    \E name \in GivenNames, profile \in Profiles :
        ConfigReturned("AddProfile", name, AddProfile(config, name, profile))

CallDeleteProfile ==
    \E name \in GivenNames :
        \E out \in DeleteProfile(config, name) :
            ConfigReturned("DeleteProfile", name, out)

CallSetCurrentProfile ==
    \E name \in GivenNames :
        ConfigReturned("SetCurrentProfile", name, SetCurrentProfile(config, name))

ConfigNext ==
    \/ CallAddProfile
    \/ CallDeleteProfile
    \/ CallSetCurrentProfile

ConfigSpec == Init /\ [][ConfigNext]_vars

\* ------------------------------------------------------------------------
\* The mesh backends: Tailscale, Headscale, NetBird
\* ------------------------------------------------------------------------
MeshNames == {"tailscale", "headscale", "netbird"}

\* strings.EqualFold on the letters of the model
EqualFold(a, b) == ToLower(a) = ToLower(b)

\* the text after the first ":" of a line that has one: parts[1] of
\* strings.SplitN(line, ":", 2)
AfterColon(line) == SubSeq(line, Index(line, ":") + 1, Len(line))

Connected == <<"C", "O", "N", "N", "E", "C", "T", "E", "D">>
Disconnected == <<"D", "I", "S", "C", "O", "N", "N", "E", "C", "T", "E", "D">>

\* the words parseNetBirdStatus looks for, in lower case
WordStatus == <<"s", "t", "a", "t", "u", "s", ":">>
WordManagement == <<"m", "a", "n", "a", "g", "e", "m", "e", "n", "t", ":">>
WordConnected == <<"c", "o", "n", "n", "e", "c", "t", "e", "d">>
WordDisconnected == <<"d", "i", "s", "c", "o", "n", "n", "e", "c", "t", "e", "d">>
WordNetbirdIP == <<"n", "e", "t", "b", "i", "r", "d", " ", "i", "p", ":">>
WordLocalIP == <<"l", "o", "c", "a", "l", " ", "i", "p", ":">>
WordInterfaceIP == <<"i", "n", "t", "e", "r", "f", "a", "c", "e", " ", "i", "p", ":">>

\* netbird.go:141-156: a line that holds "status:"
StatusLine(info, line, low) ==
    IF ~Contains(low, WordStatus) THEN info
    ELSE IF Contains(low, WordConnected)
    THEN [info EXCEPT !.connected = TRUE, !.state = Connected]
    ELSE IF Contains(low, WordDisconnected)
    THEN [info EXCEPT !.connected = FALSE, !.state = Disconnected]
    ELSE [info EXCEPT !.state = TrimSpace(AfterColon(line)),
                      !.connected = Contains(ToLower(TrimSpace(AfterColon(line))),
                                             WordConnected)]

\* netbird.go:158-166: a line that holds the local address
IPLine(info, line, low) ==
    IF Contains(low, WordNetbirdIP) \/ Contains(low, WordLocalIP)
       \/ Contains(low, WordInterfaceIP)
    THEN [info EXCEPT !.localIP = TrimSpace(AfterColon(line))]
    ELSE info

\* netbird.go:168-176: a line that holds "management:"
ManagementLine(info, low) ==
    IF Contains(low, WordManagement) /\ Contains(low, WordConnected)
    THEN [info EXCEPT !.connected = TRUE,
                      !.state = IF info.state = <<>> THEN Connected ELSE info.state]
    ELSE info

\* one turn of the loop of parseNetBirdStatus on a trimmed line
ParsedLine(info, line, low) ==
    ManagementLine(IPLine(StatusLine(info, line, low), line, low), low)

RECURSIVE ParsedLines(_, _)
ParsedLines(info, lines) ==
    IF lines = <<>> THEN info
    ELSE ParsedLines(ParsedLine(info, TrimSpace(Head(lines)),
                                ToLower(TrimSpace(Head(lines)))),
                     Tail(lines))

\* netbird.go:179-186: the state when no line gave one
DefaultState(info) ==
    IF info.state # <<>> THEN info
    ELSE [info EXCEPT !.state = IF info.connected THEN Connected ELSE Disconnected]

\* parseNetBirdStatus: [connected, state, localIP]
parseNetBirdStatus(output) ==
    DefaultState(ParsedLines([connected |-> FALSE, state |-> <<>>, localIP |-> <<>>],
                             ScanLines(output)))

\* the peers a backend knows, with the hostname as the overlay spells it; a
\* peer list holds at most one peer here, so that the order in which a map
\* of peers is ranged over does not show
PeerLists ==
    { <<>>,
      << [Hostname |-> <<"D", "B", "1">>, IP |-> <<"100.64.0.2">>] >>,
      << [Hostname |-> <<"d", "b", "1">>, IP |-> <<>>] >>,
      << [Hostname |-> <<"d", "b", "2">>, IP |-> <<"100.64.0.3">>] >> }

\* the hostnames asked for
MeshHosts == { <<"d", "b", "1">> }

\* a run of the status command of Tailscale ("tailscale status --json"):
\* err: the process failed; parsed: json.Unmarshal took the output;
\* says: what the overlay reports of itself ("joined", "away", or "nothing"
\* when no report was had)
NoReading == [err |-> TRUE, parsed |-> FALSE, BackendState |-> "", Peer |-> <<>>,
              says |-> "nothing"]

TailscaleReadings ==
    { NoReading, [NoReading EXCEPT !.err = FALSE] }
    \cup { [err |-> FALSE, parsed |-> TRUE, BackendState |-> "Running",
            Peer |-> p, says |-> "joined"] : p \in PeerLists }
    \cup { [err |-> FALSE, parsed |-> TRUE, BackendState |-> st,
            Peer |-> <<>>, says |-> "away"] : st \in {"Stopped", "NeedsLogin"} }

\* a run of "netbird status": err, the text printed, and what the overlay
\* reports of itself in it
NetBirdReadings ==
    { [err |-> TRUE, out |-> <<>>, says |-> "nothing"],
      [err |-> FALSE, out |-> <<>>, says |-> "nothing"],
      [err |-> FALSE, says |-> "joined",
       out |-> <<"S", "t", "a", "t", "u", "s", ":", " ", "C", "o", "n", "n", "e",
      "c", "t", "e", "d", NL>>],
      [err |-> FALSE, says |-> "away",
       out |-> <<"S", "t", "a", "t", "u", "s", ":", " ", "D", "i", "s", "c", "o",
      "n", "n", "e", "c", "t", "e", "d", NL>>],
      [err |-> FALSE, says |-> "joined",
       out |-> <<"M", "a", "n", "a", "g", "e", "m", "e", "n", "t", ":", " ", "C",
      "o", "n", "n", "e", "c", "t", "e", "d", NL>>],
      [err |-> FALSE, says |-> "away",
       out |-> <<"M", "a", "n", "a", "g", "e", "m", "e", "n", "t", ":", " ", "D",
      "i", "s", "c", "o", "n", "n", "e", "c", "t", "e", "d", NL>>],
      [err |-> FALSE, says |-> "away",
       out |-> <<"S", "t", "a", "t", "u", "s", ":", " ", "I", "d", "l", "e", NL>>] }

Readings(backend) ==
    IF backend = "netbird" THEN NetBirdReadings ELSE TailscaleReadings

\* TailscaleBackend.IsConnected, HeadscaleBackend.IsConnected: installed is
\* what exec.LookPath found, st the run of the status command
TailscaleIsConnected(installed, st) ==
    IF ~installed THEN FALSE
    ELSE IF st.err THEN FALSE
    ELSE IF ~st.parsed THEN FALSE
    ELSE st.BackendState = "Running"

\* NetBirdBackend.IsConnected
NetBirdIsConnected(installed, st) ==
    IF ~installed THEN FALSE
    ELSE IF st.err THEN FALSE
    ELSE parseNetBirdStatus(st.out).connected

\* IsConnected of a mesh backend
MeshIsConnected(backend, installed, st) ==
    IF backend = "netbird" THEN NetBirdIsConnected(installed, st)
    ELSE TailscaleIsConnected(installed, st)

\* a command can run only when the client is installed
CanRun(installed, st) == installed \/ st.err

\* IsConnected called on a mesh backend
CallIsConnected ==
    /\ \E backend \in MeshNames, installed \in BOOLEAN :
         \E st \in Readings(backend) :
           /\ CanRun(installed, st)
           /\ mesh' = [op |-> "IsConnected", backend |-> backend,
                       installed |-> installed, failed |-> st.err, says |-> st.says,
                       connected |-> MeshIsConnected(backend, installed, st)]
    /\ UNCHANGED <<sel, res, lists, report>>
    /\ UNCHANGED nvars
    /\ UNCHANGED dvars
    /\ UNCHANGED svars

\* a *Status: nil, or its Connected, Message and Peers; LocalIP and the
\* times are left out
NilStatus == [nil |-> TRUE, Connected |-> FALSE, Message |-> "", Peers |-> <<>>]

NewStatus(connected, message, peers) ==
    [nil |-> FALSE, Connected |-> connected, Message |-> message, Peers |-> peers]

\* the Message of a status that was read: Headscale words it after itself
StateMessage(backend, state) ==
    IF backend = "headscale" THEN <<"Headscale", state>> ELSE state

\* TailscaleBackend.GetStatus, HeadscaleBackend.GetStatus: [status, err]
TailscaleGetStatus(backend, installed, st) ==
    IF ~installed THEN [status |-> NilStatus, err |-> "ErrNotAvailable"]
    ELSE IF st.err
    THEN [status |-> NewStatus(FALSE, "Failed to get status", <<>>),
          err |-> "ErrCommandFailed"]
    ELSE IF ~st.parsed
    THEN [status |-> NewStatus(FALSE, "Failed to parse status", <<>>),
          err |-> "parseErr"]
    ELSE [status |-> NewStatus(st.BackendState = "Running",
                               StateMessage(backend, st.BackendState), st.Peer),
          err |-> "nil"]

\* a run of "netbird status -d" and the peers parseNetBirdPeers finds in
\* what it printed
PeerListReadings == {[err |-> TRUE, peers |-> <<>>]}
                    \cup {[err |-> FALSE, peers |-> p] : p \in PeerLists}

\* NetBirdBackend.getPeerList: a failed run gives the empty list and no error
getPeerList(pl) == IF pl.err THEN <<>> ELSE pl.peers

\* NetBirdGetStatus without the check that the client is installed
NetBirdGetStatusUnchecked(installed, st, pl) ==
    IF st.err
    THEN [status |-> NewStatus(FALSE, "Failed to get status", <<>>),
          err |-> "ErrCommandFailed"]
    ELSE [status |-> NewStatus(parseNetBirdStatus(st.out).connected,
                               parseNetBirdStatus(st.out).state,
                               IF parseNetBirdStatus(st.out).connected
                               THEN getPeerList(pl) ELSE <<>>),
          err |-> "nil"]

\* NetBirdBackend.GetStatus: [status, err]; pl is read only when connected
NetBirdGetStatus(installed, st, pl) ==
    IF ~installed THEN [status |-> NilStatus, err |-> "ErrNotAvailable"]
    ELSE IF st.err
    THEN [status |-> NewStatus(FALSE, "Failed to get status", <<>>),
          err |-> "ErrCommandFailed"]
    ELSE [status |-> NewStatus(parseNetBirdStatus(st.out).connected,
                               parseNetBirdStatus(st.out).state,
                               IF parseNetBirdStatus(st.out).connected
                               THEN getPeerList(pl) ELSE <<>>),
          err |-> "nil"]

\* GetStatus of a mesh backend
MeshGetStatus(backend, installed, st, pl) ==
    IF backend = "netbird" THEN NetBirdGetStatus(installed, st, pl)
    ELSE TailscaleGetStatus(backend, installed, st)

GetStatusReturned(out, backend, installed, st) ==
    mesh' = [op |-> "GetStatus", backend |-> backend, installed |-> installed,
             failed |-> st.err, says |-> st.says,
             status |-> out.status, err |-> out.err]

\* GetStatus called on a mesh backend
CallGetStatus ==
    /\ \E backend \in MeshNames, installed \in BOOLEAN :
         \E st \in Readings(backend), pl \in PeerListReadings :
           /\ CanRun(installed, st)
           /\ GetStatusReturned(MeshGetStatus(backend, installed, st, pl),
                                backend, installed, st)
    /\ UNCHANGED <<sel, res, lists, report>>
    /\ UNCHANGED nvars
    /\ UNCHANGED dvars
    /\ UNCHANGED svars

\* the search of a peer list for the hostname: the first peer of that name,
\* whatever the case of its letters, that has an address: [found, ip]
RECURSIVE Search(_, _)
Search(peers, hostname) ==
    IF peers = <<>> THEN [found |-> FALSE, ip |-> <<>>]
    ELSE IF EqualFold(Head(peers).Hostname, hostname) /\ Head(peers).IP # <<>>
    THEN [found |-> TRUE, ip |-> Head(peers).IP]
    ELSE Search(Tail(peers), hostname)

\* what a search returns: the address, or ErrPeerNotFound
Searched(f, ran) ==
    IF f.found THEN [ip |-> f.ip, err |-> "nil", ran |-> ran]
    ELSE [ip |-> <<>>, err |-> "ErrPeerNotFound", ran |-> ran]

\* a run of "tailscale ip -4 hostname": err, and the text printed
IPRuns ==
    { [err |-> TRUE, out |-> <<>>],
      [err |-> FALSE, out |-> <<NL>>],
      [err |-> FALSE, out |-> <<"100.64.0.9", NL>>] }

\* the fallback of GetPeerIP: the peers of GetStatus are searched; s is
\* what GetStatus returned
FromStatus(s, hostname, ran) ==
    IF s.err # "nil" THEN [ip |-> <<>>, err |-> "ErrPeerNotFound", ran |-> ran]
    ELSE Searched(Search(s.status.Peers, hostname), ran)

\* TailscaleBackend.GetPeerIP, HeadscaleBackend.GetPeerIP: [ip, err, ran];
\* st is the status IsConnected reads, run the "tailscale ip" run, st2 the
\* status GetStatus reads; ran: the commands that were run
TailscaleGetPeerIP(backend, hostname, installed, st, run, st2) ==
    IF ~TailscaleIsConnected(installed, st)
    THEN [ip |-> <<>>, err |-> "ErrNotConnected",
          ran |-> IF installed THEN {"status"} ELSE {}]
    ELSE IF run.err
    THEN FromStatus(TailscaleGetStatus(backend, installed, st2), hostname,
                    {"status", "ip", "status again"})
    ELSE IF TrimSpace(run.out) = <<>>
    THEN [ip |-> <<>>, err |-> "ErrPeerNotFound", ran |-> {"status", "ip"}]
    ELSE [ip |-> TrimSpace(run.out), err |-> "nil", ran |-> {"status", "ip"}]

\* NetBirdBackend.GetPeerIP: [ip, err, ran]; getPeerList returns no error
NetBirdGetPeerIP(hostname, installed, st, pl) ==
    IF ~NetBirdIsConnected(installed, st)
    THEN [ip |-> <<>>, err |-> "ErrNotConnected",
          ran |-> IF installed THEN {"status"} ELSE {}]
    ELSE Searched(Search(getPeerList(pl), hostname), {"status", "status -d"})

\* GetPeerIP of a mesh backend
MeshGetPeerIP(backend, hostname, installed, st, run, st2, pl) ==
    IF backend = "netbird" THEN NetBirdGetPeerIP(hostname, installed, st, pl)
    ELSE TailscaleGetPeerIP(backend, hostname, installed, st, run, st2)

\* what the lookups of the call had to find: primary, the address the
\* lookup command printed (Tailscale, Headscale); listed, the search of the
\* peer list the call reads when there is no such command or it failed
Primary(backend, run) ==
    IF backend = "netbird" \/ run.err THEN "failed"
    ELSE IF TrimSpace(run.out) = <<>> THEN "empty" ELSE "found"

Listed(backend, hostname, st2, pl) ==
    IF backend = "netbird" THEN Search(getPeerList(pl), hostname)
    ELSE IF st2.err \/ ~st2.parsed THEN [found |-> FALSE, ip |-> <<>>]
    ELSE Search(st2.Peer, hostname)

GetPeerIPReturned(out, backend, hostname, installed, st, primary, listed) ==
    mesh' = [op |-> "GetPeerIP", backend |-> backend, installed |-> installed,
             failed |-> st.err, says |-> st.says, hostname |-> hostname,
             primary |-> primary, listed |-> listed,
             ip |-> out.ip, err |-> out.err, ran |-> out.ran]

\* GetPeerIP called on a mesh backend
CallGetPeerIP ==
    /\ \E backend \in MeshNames, installed \in BOOLEAN, hostname \in MeshHosts :
         \E st \in Readings(backend), run \in IPRuns,
            st2 \in Readings(backend), pl \in PeerListReadings :
           /\ CanRun(installed, st)
           /\ GetPeerIPReturned(
                  MeshGetPeerIP(backend, hostname, installed, st, run, st2, pl),
                  backend, hostname, installed, st,
                  Primary(backend, run), Listed(backend, hostname, st2, pl))
    /\ UNCHANGED <<sel, res, lists, report>>
    /\ UNCHANGED nvars
    /\ UNCHANGED dvars
    /\ UNCHANGED svars

MeshNext ==
    \/ CallIsConnected
    \/ CallGetStatus
    \/ CallGetPeerIP

MeshSpec == Init /\ [][MeshNext]_vars

\* ------------------------------------------------------------------------
\* Detector.HealthCheck and Detector.DetectAll
\* ------------------------------------------------------------------------
\* what a backend answers during one call: available and connected are the
\* answers of IsAvailable and IsConnected, status and err what GetStatus
\* returns. The first is a mesh backend whose client is not installed, the
\* second a backend that reports itself unavailable and answers the rest as
\* if it were not, the others backends that are available.
Answers ==
    { [available |-> FALSE, connected |-> FALSE,
       status |-> NilStatus, err |-> "ErrNotAvailable"],
      [available |-> FALSE, connected |-> TRUE,
       status |-> NewStatus(TRUE, "up", <<>>), err |-> "nil"],
      [available |-> TRUE, connected |-> FALSE,
       status |-> NewStatus(FALSE, "down", <<>>), err |-> "nil"],
      [available |-> TRUE, connected |-> TRUE,
       status |-> NewStatus(TRUE, "up", <<>>), err |-> "nil"],
      [available |-> TRUE, connected |-> TRUE,
       status |-> NewStatus(FALSE, "Failed to get status", <<>>),
       err |-> "ErrCommandFailed"] }

\* the turn of HealthCheck's loop for a backend, IsConnected and GetStatus
\* being called whatever IsAvailable answered
HealthCheckedAnyway(b, a) ==
    [Backend |-> b, Available |-> a.available, Connected |-> a.connected,
     Message |-> IF a.err # "nil" THEN a.err ELSE a.status.Message,
     asked |-> {"IsAvailable", "IsConnected", "GetStatus"}]

\* the turn of HealthCheck's loop for backend b, which answers a: the
\* HealthCheckResult without its Duration, and the methods called (asked)
HealthChecked(b, a) ==
    IF ~a.available
    THEN [Backend |-> b, Available |-> FALSE, Connected |-> FALSE,
          Message |-> "Not installed", asked |-> {"IsAvailable"}]
    ELSE [Backend |-> b, Available |-> TRUE, Connected |-> a.connected,
          Message |-> IF a.err # "nil" THEN a.err ELSE a.status.Message,
          asked |-> {"IsAvailable", "IsConnected", "GetStatus"}]

\* Detector.HealthCheck on the slice List returned: the slice of results
HealthCheck(list, answers) ==
    [i \in 1..Len(list) |-> HealthChecked(list[i], answers[list[i]])]

\* Detector.HealthCheck called; a run follows one call of HealthCheck or
\* DetectAll, which keep nothing from one call to the next
CallHealthCheck ==
    /\ report.op = "none"
    /\ \E list \in List(registry), answers \in [registry -> Answers] :
         report' = [op |-> "HealthCheck", reg |-> registry, answers |-> answers,
                    results |-> HealthCheck(list, answers)]
    /\ UNCHANGED <<sel, res, lists, mesh>>
    /\ UNCHANGED nvars
    /\ UNCHANGED dvars
    /\ UNCHANGED svars

\* the turn of DetectAll's loop for a backend, GetStatus being called
\* whatever IsAvailable answered
DetectedAnyway(b, a) ==
    IF a.err # "nil"
    THEN [Backend |-> b, Connected |-> FALSE, Message |-> a.err,
          asked |-> {"IsAvailable", "GetStatus"}]
    ELSE [Backend |-> b, Connected |-> a.status.Connected,
          Message |-> a.status.Message, asked |-> {"IsAvailable", "GetStatus"}]

\* the turn of DetectAll's loop for backend b, which answers a: the Status
\* stored under its name, without its time, and the methods called (asked)
Detected(b, a) ==
    IF ~a.available
    THEN [Backend |-> b, Connected |-> FALSE, Message |-> "Not installed",
          asked |-> {"IsAvailable"}]
    ELSE IF a.err # "nil"
    THEN [Backend |-> b, Connected |-> FALSE, Message |-> a.err,
          asked |-> {"IsAvailable", "GetStatus"}]
    ELSE [Backend |-> b, Connected |-> a.status.Connected,
          Message |-> a.status.Message, asked |-> {"IsAvailable", "GetStatus"}]

\* Detector.DetectAll: the map from the names to the Status of each; the
\* order of the slice List returned does not show in it
DetectAll(list, answers) ==
    [b \in Range(list) |-> Detected(b, answers[b])]

\* Detector.DetectAll called
CallDetectAll ==
    /\ report.op = "none"
    /\ \E list \in List(registry), answers \in [registry -> Answers] :
         report' = [op |-> "DetectAll", reg |-> registry, answers |-> answers,
                    results |-> DetectAll(list, answers)]
    /\ UNCHANGED <<sel, res, lists, mesh>>
    /\ UNCHANGED nvars
    /\ UNCHANGED dvars
    /\ UNCHANGED svars

ReportNext ==
    \/ Register
    \/ CallHealthCheck
    \/ CallDetectAll

ReportSpec == Init /\ [][ReportNext]_vars

\* ------------------------------------------------------------------------
\* Detector.ResolveHost
\* ------------------------------------------------------------------------
\* the hostnames resolved: a name, and an address written out
PeerHosts == {"db1", "10.0.0.5"}

\* net.ParseIP(hostname) != nil
IsIP(hostname) == hostname = "10.0.0.5"

\* what resolver.LookupIP returns: an address, an error, or no address
DNSAnswers == {"192.168.1.7", "dnsErr", "empty"}

\* the address a VPN backend knows its peer by
PeerAddress == "100.64.0.2"

\* what GetPeerIP of a VPN backend returns: [ip, err]
PeerAnswers ==
    { [ip |-> PeerAddress, err |-> "nil"],
      [ip |-> "", err |-> "ErrNotConnected"],
      [ip |-> "", err |-> "ErrPeerNotFound"] }

\* LANBackend.GetPeerIP: [ip, err]
LANGetPeerIP(hostname, dns) ==
    IF IsIP(hostname) THEN [ip |-> hostname, err |-> "nil"]
    ELSE IF dns = "dnsErr" THEN [ip |-> "", err |-> "dnsErr"]
    ELSE IF dns = "empty" THEN [ip |-> "", err |-> "ErrPeerNotFound"]
    ELSE [ip |-> dns, err |-> "nil"]

\* backend.GetPeerIP(ctx, hostname)
GetPeerIP(backend, hostname, peer, dns) ==
    IF backend = "lan" THEN LANGetPeerIP(hostname, dns) ELSE peer

\* Resolved without the LAN fallback
ResolvedNoFallback(backend, r, l) ==
    IF r.err # "nil"
    THEN [ip |-> "", err |-> r.err, peer |-> r.err, lan |-> "none"]
    ELSE [ip |-> r.ip, err |-> "nil", peer |-> "nil", lan |-> "none"]

\* Resolved that returns the error of the LAN fallback when both fail
ResolvedLanError(backend, r, l) ==
    IF r.err # "nil"
    THEN IF backend # "lan" /\ l.err = "nil"
         THEN [ip |-> l.ip, err |-> "nil", peer |-> r.err, lan |-> l.err]
         ELSE [ip |-> "", err |-> IF backend # "lan" THEN l.err ELSE r.err,
               peer |-> r.err, lan |-> IF backend # "lan" THEN l.err ELSE "none"]
    ELSE [ip |-> r.ip, err |-> "nil", peer |-> "nil", lan |-> "none"]

\* ResolveHost after backend.GetPeerIP returned r; l is what GetPeerIP of a
\* new LANBackend returns, called only for another backend that failed:
\* [ip, err, peer, lan], peer and lan being the errors of the two calls
\* ("none" for a call not made)
Resolved(backend, r, l) ==
    IF r.err # "nil"
    THEN IF backend # "lan" /\ l.err = "nil"
         THEN [ip |-> l.ip, err |-> "nil", peer |-> r.err, lan |-> l.err]
         ELSE [ip |-> "", err |-> r.err, peer |-> r.err,
               lan |-> IF backend # "lan" THEN l.err ELSE "none"]
    ELSE [ip |-> r.ip, err |-> "nil", peer |-> "nil", lan |-> "none"]

\* Detector.ResolveHost
ResolveHost(backend, hostname, peer, dns) ==
    IF backend = NoBackend
    THEN [ip |-> "", err |-> "nilBackend", peer |-> "none", lan |-> "none"]
    ELSE Resolved(backend, GetPeerIP(backend, hostname, peer, dns),
                  LANGetPeerIP(hostname, dns))

ResolveReturned(out, backend, hostname, peer, dns) ==
    res' = [backend |-> backend, hostname |-> hostname, peer |-> out.peer,
            lan |-> out.lan, ip |-> out.ip, err |-> out.err, dns |-> dns]

\* ResolveHost called with a registered backend, or with nil
CallResolveHost ==
    /\ \E backend \in registry \cup {NoBackend}, hostname \in PeerHosts,
          peer \in PeerAnswers, dns \in DNSAnswers :
         ResolveReturned(ResolveHost(backend, hostname, peer, dns),
                         backend, hostname, peer, dns)
    /\ UNCHANGED sel
    /\ UNCHANGED ovars
    /\ UNCHANGED dvars
    /\ UNCHANGED svars

ResolveNext ==
    \/ Register
    \/ CallResolveHost

ResolveSpec == Init /\ [][ResolveNext]_vars

\* ------------------------------------------------------------------------
\* The errors the callback returns (fmt.Errorf, hostkeys.go:62-111)
\* ------------------------------------------------------------------------
\* the dynamic type of the error value and the error it wraps: fmt.Errorf
\* with %w makes a *fmt.wrapError, without it an *errors.errorString
GoError(err) ==
    CASE err = "loadErr"  -> [type |-> "*fmt.wrapError", wraps |-> "load"]
      [] err = "mismatch" -> [type |-> "*errors.errorString", wraps |-> "none"]
      [] err = "inputErr" -> [type |-> "*fmt.wrapError", wraps |-> "read"]
      [] err = "rejected" -> [type |-> "*errors.errorString", wraps |-> "none"]
      [] err = "addErr"   -> [type |-> "*fmt.wrapError", wraps |-> "add"]
      [] err = "otherErr" -> [type |-> "*fmt.wrapError", wraps |-> "knownhosts"]
      [] OTHER            -> [type |-> "nil", wraps |-> "none"]

\* ------------------------------------------------------------------------
\* Properties of host key verification
\* ------------------------------------------------------------------------
\* C1: tamper detection. A verification of a host that has a key stored,
\* with a key that is not stored for it, fails: with the mismatch error
\* once the file is loaded, with the load error otherwise. The file is
\* left as it was, so the stored key stays and the presented one is not added.
C1_TamperDetection ==
    (last.op = "verify" /\ last.pre = "other") =>
        /\ \/ last.err = "mismatch" /\ last.known = "mismatch"
           \/ last.err = "loadErr" /\ last.fs \in LoadFaults
        /\ ~last.wrote
        /\ last.post = "other"

\* a verification met a stored key that differs from the presented one
C1_Witness ==
    /\ last.op = "verify" /\ last.pre = "other"
    /\ last.err = "mismatch" /\ last.post = "other"

\* C2: in the known-but-mismatched state the user is never asked and the
\* file is never written, whatever answer is ready, and the call never
\* succeeds; the state it leaves is the same, so a retry meets it again.
C2_NeverAutoResolved ==
    (last.op = "verify" /\ (last.pre = "other" \/ last.known = "mismatch")) =>
        /\ ~last.prompted
        /\ ~last.wrote
        /\ last.err # "nil"

\* a mismatched verification ran with an accepting answer ready
C2_Witness ==
    /\ last.op = "verify" /\ last.known = "mismatch" /\ last.accept
    /\ ~last.prompted /\ ~last.wrote

\* C3: round trip. The verification that directly follows the acceptance of
\* an unknown host, with the same hostname and key, asks nothing, writes
\* nothing and succeeds (it fails only when the file cannot be loaded).
C3_RoundTrip ==
    last.again =>
        /\ ~last.prompted
        /\ ~last.wrote
        /\ \/ last.err = "nil" /\ last.known = "ok"
           \/ last.err = "loadErr" /\ last.fs \in LoadFaults

\* the accepted pair was verified again and passed silently
C3_Witness == last.again /\ last.err = "nil" /\ ~last.prompted /\ ~last.wrote

\* C4: the file holds at most one entry for a hostname and a key type.
EntriesFor(lines, hostname, type) ==
    {i \in 1..Len(lines) :
        \E k \in Keys : k.type = type /\ lines[i] = LineOf[hostname, k]}

C4_OneEntryPerHostAndType ==
    \A hostname \in Addresses, k \in Keys :
        Cardinality(EntriesFor(ScanLines(knownHosts), hostname, k.type)) <= 1

\* C5: unknown host, accepted. The user is asked; when the callback returns
\* success the entry has been written and is in the file; when adding the
\* entry fails the callback returns the error.
C5_AcceptPersists ==
    (last.op = "verify" /\ last.pre = "none" /\ last.accept
        /\ last.fs \notin LoadFaults) =>
        /\ last.prompted /\ last.known = "unknown"
        /\ last.err = "nil" => last.wrote /\ last.post = "this"
        /\ last.fs \in AddFaults => last.err = "addErr" /\ last.post = "none"
        /\ last.fs = "none" => last.err = "nil"

\* an unknown host was accepted and its entry written
C5_Witness ==
    /\ last.op = "verify" /\ last.pre = "none" /\ last.accept
    /\ last.err = "nil" /\ last.wrote /\ last.post = "this"

\* C6: unknown host, not accepted. The callback fails with the rejected or
\* the input error and the file is as it was: the host is still unknown.
C6_RejectLeavesUnknown ==
    (last.op = "verify" /\ last.pre = "none" /\ ~last.accept
        /\ last.fs \notin LoadFaults) =>
        /\ last.err \in {"rejected", "inputErr"}
        /\ ~last.wrote
        /\ last.post = "none"

\* an unknown host was asked about and turned down
C6_Witness ==
    /\ last.op = "verify" /\ last.pre = "none" /\ ~last.accept /\ last.prompted
    /\ last.err = "rejected" /\ last.post = "none"

\* C7: fail closed. When the directory or the file cannot be made, or the
\* file cannot be loaded, the callback returns the load error, asks nothing
\* and writes nothing, whatever the hostname and the key.
C7_FailClosed ==
    (last.op = "verify" /\ last.fs \in LoadFaults) =>
        /\ last.err = "loadErr"
        /\ ~last.prompted
        /\ ~last.wrote

\* a verification failed because the file could not be loaded
C7_Witness ==
    /\ last.op = "verify" /\ last.fs \in LoadFaults /\ last.err = "loadErr"
    /\ ~last.prompted

\* C8: the error of a key mismatch differs, in its type or in the error it
\* wraps, from the errors of an unknown host (rejected, prompt failure).
C8_MismatchDistinctInType ==
    (last.op = "verify" /\ last.err = "mismatch") =>
        \A e \in {"rejected", "inputErr"} : GoError(last.err) # GoError(e)

DistinctPriorities ==
    \A a, b \in registry : a # b => Priority(a) # Priority(b)

\* the backends whose goroutine reported available and connected
ReportedConnected ==
    {b \in registry : task[b].pc = "done" /\ task[b].available /\ task[b].connected}

\* C10: with pairwise distinct priorities and a backend that reported
\* available and connected, a DetectBest that returns from its loop's end
\* (not on cancellation) returns without error the backend of highest
\* priority among those that reported available and connected, in
\* whatever order the results arrived.
C10_HighestConnected ==
    (agg.pc = "returned" /\ agg.err # "ctxErr" /\ DistinctPriorities
        /\ ReportedConnected # {}) =>
        /\ agg.err = "nil"
        /\ agg.backend \in ReportedConnected
        /\ \A b \in ReportedConnected : Priority(b) <= Priority(agg.backend)

\* DetectBest returned the best connected backend although a connected
\* backend of lower priority arrived first and an available one of higher
\* priority was not connected
C10_Witness ==
    /\ agg.pc = "returned" /\ agg.err = "nil" /\ DistinctPriorities
    /\ Cardinality(ReportedConnected) >= 2
    /\ agg.availableBackends[1] \in ReportedConnected
    /\ Priority(agg.availableBackends[1]) < Priority(agg.backend)
    /\ \E b \in registry : task[b].available /\ ~task[b].connected
                           /\ Priority(b) > Priority(agg.backend)

\* the backends whose goroutine reported available
ReportedAvailable ==
    {b \in registry : task[b].pc = "done" /\ task[b].available}

\* C11: when no backend reported connected and one reported available, a
\* DetectBest that returns from its loop's end returns without error a
\* backend of the highest priority among those that reported available, in
\* whatever order the results arrived.
C11_HighestAvailable ==
    (agg.pc = "returned" /\ agg.err # "ctxErr" /\ ReportedConnected = {}
        /\ ReportedAvailable # {}) =>
        /\ agg.err = "nil"
        /\ agg.backend \in ReportedAvailable
        /\ \A b \in ReportedAvailable : Priority(b) <= Priority(agg.backend)

\* none connected, and the available backend that arrived first has a lower
\* priority than the one returned
C11_Witness ==
    /\ agg.pc = "returned" /\ agg.err = "nil" /\ ReportedConnected = {}
    /\ Len(agg.availableBackends) >= 2
    /\ Priority(agg.availableBackends[1]) < Priority(agg.backend)

\* C12: when no registered backend reported available, the registry being
\* empty or not, a DetectBest that returns from its loop's end returns no
\* backend and the error that no backend is available.
C12_NoBackendAvailable ==
    (agg.pc = "returned" /\ agg.err # "ctxErr" /\ ReportedAvailable = {}) =>
        /\ agg.backend = NoBackend
        /\ agg.err = "noBackends"

\* backends are registered, all reported unavailable, and the error came back
C12_Witness ==
    /\ agg.pc = "returned" /\ agg.err = "noBackends" /\ agg.backend = NoBackend
    /\ Cardinality(registry) >= 2
    /\ \A b \in registry : task[b].pc = "done" /\ ~task[b].available

\* C13: DetectBest never returns a backend that reported unavailable, and
\* never one that is not connected when some backend reported connected,
\* whatever the priorities.
C13_ConnectedBeforeAvailable ==
    (agg.pc = "returned" /\ agg.err = "nil") =>
        /\ agg.backend \in ReportedAvailable
        /\ ReportedConnected # {} => agg.backend \in ReportedConnected

\* the connected backend was returned over an unavailable one and an
\* available one, both of higher priority
C13_Witness ==
    /\ agg.pc = "returned" /\ agg.err = "nil" /\ agg.backend \in ReportedConnected
    /\ \E b \in registry : task[b].pc = "done" /\ ~task[b].available
                           /\ Priority(b) > Priority(agg.backend)
    /\ \E b \in ReportedAvailable \ ReportedConnected :
         Priority(b) > Priority(agg.backend)

\* the backends DetectBest chooses among: the connected ones, or the
\* available ones when none is connected
Qualifying ==
    IF ReportedConnected # {} THEN ReportedConnected ELSE ReportedAvailable

\* the place of a backend in the slice DetectBest took from Registry.List
PlaceOf(b) == CHOOSE i \in 1..Len(backends) : backends[i] = b

\* C14: tie-break. Of the qualifying backends of equal, highest priority
\* DetectBest returns the one that comes first in the list it took from the
\* registry, in every order of arrival.
C14_TieBreakByListOrder ==
    (agg.pc = "returned" /\ agg.err = "nil") =>
        \A b \in Qualifying :
            Priority(b) = Priority(agg.backend) => PlaceOf(agg.backend) <= PlaceOf(b)

\* C15: cancellation. A DetectBest whose context was cancelled while it
\* still had results to collect returns the context's error and no backend.
C15_CancelledReturnsCtxErr ==
    (agg.pc = "returned" /\ agg.interrupted) =>
        agg.err = "ctxErr" /\ agg.backend = NoBackend

\* ------------------------------------------------------------------------
\* Properties of SelectBackend
\* ------------------------------------------------------------------------
\* what DetectBest may return for the answers the backends gave
DetectBestPolicy(backend, err) ==
    /\ err = "ctxErr" => backend = NoBackend /\ ctxDone
    /\ err = "noBackends" => backend = NoBackend /\ ReportedAvailable = {}
    /\ err = "nil" =>
         /\ backend \in Qualifying
         /\ \A b \in Qualifying : Priority(b) <= Priority(backend)

\* C16: SelectBackend with the preference "auto" or "" is DetectBest: it
\* asks no backend itself, and returns the backend and the error that the
\* DetectBest it ran returned, which are those DetectBest gives for the
\* answers of the backends.
C16_AutoIsDetectBest ==
    (sel.pc = "returned" /\ sel.preference \in {"auto", ""}) =>
        /\ agg.pc = "returned"
        /\ sel.backend = agg.backend /\ sel.err = agg.err
        /\ sel.err \in {"nil", "noBackends", "ctxErr"}
        /\ sel.probed = {}
        /\ DetectBestPolicy(sel.backend, sel.err)

\* SelectBackend("") returned the backend detection chose among several
C16_Witness ==
    /\ sel.pc = "returned" /\ sel.preference = "" /\ sel.err = "nil"
    /\ Cardinality(ReportedAvailable) >= 2 /\ sel.backend = agg.backend

\* no goroutine of DetectBest was started, so no backend was asked by one
NoProbeTask == agg.pc = "idle" /\ \A b \in BackendNames : task[b].pc = "none"

\* C17: SelectBackend with a preference that is not "auto", not "" and not
\* the name of a registered backend as written returns no backend and the
\* not-found error of the registry, and asks no backend anything.
C17_UnknownNameNoProbe ==
    (sel.pc = "returned" /\ sel.preference \notin {"auto", ""}
        /\ sel.preference \notin registry) =>
        /\ sel.err = "notFound"
        /\ sel.backend = NoBackend
        /\ sel.probed = {}
        /\ NoProbeTask

\* the name of a registered backend in capitals was not found
C17_Witness ==
    /\ sel.pc = "returned" /\ sel.preference = "LAN" /\ "lan" \in registry
    /\ sel.err = "notFound" /\ sel.probed = {}

\* C18: SelectBackend with the name of a registered backend asks that
\* backend, and only that one, whether it is available; it returns the
\* backend when the answer is yes and the not-available error and no
\* backend when it is no. IsConnected is asked of no backend.
C18_NamedNeedsAvailable ==
    (sel.pc = "returned" /\ sel.preference \in registry) =>
        /\ sel.probed = {sel.preference}
        /\ NoProbeTask
        /\ sel.available => sel.backend = sel.preference /\ sel.err = "nil"
        /\ ~sel.available => sel.backend = NoBackend /\ sel.err = "notAvailable"

\* a named backend was returned with other backends registered
C18_Witness ==
    /\ sel.pc = "returned" /\ sel.preference = "tailscale" /\ sel.available
    /\ sel.backend = "tailscale" /\ sel.err = "nil" /\ Cardinality(registry) >= 2

\* what LAN/DNS resolution of the hostname of the last ResolveHost gives
LanOfLast == LANGetPeerIP(res.hostname, res.dns)

\* the last ResolveHost was given a backend other than LAN and nil
OnVPN == res.backend \in BackendNames \ {"lan"}

\* C19: ResolveHost on a non-LAN backend whose GetPeerIP fails for a
\* hostname that LAN/DNS resolution resolves returns the LAN-resolved
\* address and no error.
C19_LanFallback ==
    (OnVPN /\ res.peer \notin {"nil", "none"} /\ LanOfLast.err = "nil")
        => (res.ip = LanOfLast.ip /\ res.err = "nil")

C19_Witness ==
    /\ OnVPN
    /\ res.hostname = "db1"
    /\ res.peer = "ErrPeerNotFound"
    /\ res.dns = "192.168.1.7"
    /\ res.ip = "192.168.1.7"
    /\ res.err = "nil"

\* C20: when the backend's GetPeerIP fails and the LAN fallback fails too,
\* or the backend is LAN (no fallback is attempted), ResolveHost returns the
\* backend's own error and no address, never the error of the fallback;
\* when GetPeerIP succeeds its address is returned and LAN resolution is not
\* consulted.
C20_OriginalError ==
    /\ (OnVPN /\ res.peer \notin {"nil", "none"} /\ LanOfLast.err # "nil")
           => (res.err = res.peer /\ res.ip = "")
    /\ (res.backend = "lan" /\ LanOfLast.err # "nil")
           => (res.err = LanOfLast.err /\ res.ip = "" /\ res.lan = "none")
    /\ (OnVPN /\ res.peer = "nil")
           => (res.ip = PeerAddress /\ res.err = "nil" /\ res.lan = "none")
    /\ (res.backend = "lan" /\ LanOfLast.err = "nil")
           => (res.ip = LanOfLast.ip /\ res.err = "nil" /\ res.lan = "none")

C20_Witness ==
    /\ OnVPN
    /\ res.peer = "ErrNotConnected"
    /\ res.lan = "dnsErr"
    /\ res.err = "ErrNotConnected"
    /\ res.ip = ""

\* ------------------------------------------------------------------------
\* Properties of the registry, of removal and of the errors reported
\* ------------------------------------------------------------------------
\* C22: after RemoveKnownHost(H) returns success the file holds no entry
\* for H, so that a verification of H that follows finds the host unknown.
C22_RemovedIsUnknown ==
    (last.op = "remove" /\ last.err = "nil") => last.post = "none"

\* C23: RemoveKnownHost(H) removes only the entries of H: the entries of
\* every other host, one whose name contains H included, are as they were.
C23_RemovesOnlyItsHost ==
    (last.op = "remove" /\ last.err = "nil") => last.kept

\* what the callback returns for the host and the key on the file as it is,
\* the answer being "no" and no system call failing
CallbackNow(hostname, key) ==
    HostKeyCallback(knownHostsExists, knownHosts, hostname, key,
                    [text |-> <<"n", "o", NL>>, err |-> FALSE], "none")

\* the message of the mismatch error holds the fingerprint of the key
\* presented and that of every key stored for the host
BothFingerprints(out, hostname, key) ==
    out.err = "mismatch" =>
        /\ FormatFingerprint(key) \in out.shown
        /\ \A k \in StoredKeys(knownHosts, hostname) :
               FormatFingerprint(k) \in out.shown

\* C24: the error of a trust mismatch reports both fingerprints, that of
\* the stored key and that of the presented key.
C24_BothFingerprints ==
    \A hostname \in Addresses, key \in Keys :
        BothFingerprints(CallbackNow(hostname, key), hostname, key)

\* the backends a message names
NamedIn(text) == {b \in BackendNames : b \in Range(text)}

\* C25: when DetectBest fails because no backend qualifies, the failure
\* names every backend that was tried, with the reason each one failed.
C25_FailureNamesBackends ==
    (agg.pc = "returned" /\ agg.err = "noBackends") =>
        Range(backends) \subseteq NamedIn(ErrorText(agg.err))

\* the place of a backend's name among the names in order
NameRank(b) ==
    CASE b = "headscale" -> 1 [] b = "lan" -> 2 [] b = "netbird" -> 3
      [] b = "tailscale" -> 4

\* C21: Registry.List returns every registered backend exactly once, in
\* the order of the names, the same on every call.
C21_ListStableOrder ==
    lists.calls > 0 =>
        /\ Range(lists.cur) = lists.reg
        /\ Len(lists.cur) = Cardinality(lists.reg)
        /\ \A i, j \in 1..Len(lists.cur) :
               i < j => NameRank(lists.cur[i]) < NameRank(lists.cur[j])
        /\ lists.calls = 2 => lists.cur = lists.prev

\* every registered backend is in the slice, once: the part of C21 that
\* does not depend on the order
ListHasEachOnce ==
    lists.calls > 0 =>
        /\ Range(lists.cur) = lists.reg
        /\ Len(lists.cur) = Cardinality(lists.reg)

\* C26: IsConnected of a mesh backend fails closed: it returns true only
\* when the status output reports the joined state, and false when the
\* status command fails, its output cannot be read, or it reports the
\* overlay disconnected.
C26_IsConnectedFailsClosed ==
    (mesh.op = "IsConnected" /\ mesh.connected) =>
        (mesh.installed /\ ~mesh.failed /\ mesh.says = "joined")

\* the result GetPeerIP is to give on a joined overlay: the address the
\* lookup printed, else that of the peer of that name in the list, else
\* ErrPeerNotFound
LookedUp ==
    IF mesh.primary = "found" THEN mesh.err = "nil" /\ mesh.ip # <<>>
    ELSE IF mesh.primary = "failed" /\ mesh.listed.found
    THEN mesh.err = "nil" /\ mesh.ip = mesh.listed.ip
    ELSE mesh.err = "ErrPeerNotFound" /\ mesh.ip = <<>>

\* C27: GetPeerIP of a mesh backend returns ErrNotConnected, having run no
\* lookup, when the overlay is not joined; when it is joined it returns the
\* address found, by the lookup or in the peer list, and ErrPeerNotFound
\* when neither finds the hostname.
C27_GetPeerIPErrors ==
    mesh.op = "GetPeerIP" =>
        /\ (~mesh.installed \/ mesh.says = "away") =>
              (mesh.err = "ErrNotConnected" /\ mesh.ran \subseteq {"status"})
        /\ (mesh.installed /\ mesh.says = "joined") => LookedUp

\* C28: GetStatus of a mesh backend returns ErrNotAvailable when the
\* client is not installed and ErrCommandFailed when the status command
\* fails; in neither case does what it returns report Connected.
C28_GetStatusErrors ==
    mesh.op = "GetStatus" =>
        /\ ~mesh.installed => (mesh.err = "ErrNotAvailable" /\ mesh.status.nil)
        /\ (mesh.installed /\ mesh.failed) => mesh.err = "ErrCommandFailed"
        /\ mesh.err \in {"ErrNotAvailable", "ErrCommandFailed"} =>
              ~mesh.status.Connected

\* the status command failed on an installed client
C28_Witness ==
    /\ mesh.op = "GetStatus" /\ mesh.installed /\ mesh.failed
    /\ mesh.err = "ErrCommandFailed"
    /\ ~mesh.status.nil /\ ~mesh.status.Connected

\* C29: HealthCheck returns one result for each registered backend, and no
\* other; the Available of a result is what IsAvailable answered, and its
\* Connected what IsConnected answered when the backend is available and
\* false when it is not, so that Connected implies Available.
C29_HealthCheckResults ==
    report.op = "HealthCheck" =>
        /\ Len(report.results) = Cardinality(report.reg)
        /\ {report.results[i].Backend : i \in 1..Len(report.results)} = report.reg
        /\ \A i \in 1..Len(report.results) :
             LET r == report.results[i] IN
             /\ r.Available = report.answers[r.Backend].available
             /\ r.Connected = (report.answers[r.Backend].available
                               /\ report.answers[r.Backend].connected)
             /\ r.Connected => r.Available

\* two backends checked: one unavailable that would have answered
\* connected, one available and connected
C29_Witness ==
    /\ report.op = "HealthCheck"
    /\ \E i, j \in 1..Len(report.results) :
         /\ ~report.results[i].Available
         /\ report.answers[report.results[i].Backend].connected
         /\ ~report.results[i].Connected
         /\ report.results[j].Available /\ report.results[j].Connected

\* C30: DetectAll returns one Status under the name of each registered
\* backend; that of a backend which is unavailable or whose GetStatus fails
\* has Connected false, and GetStatus is not called on an unavailable backend.
C30_DetectAllStatuses ==
    report.op = "DetectAll" =>
        /\ DOMAIN report.results = report.reg
        /\ \A b \in report.reg :
             /\ report.results[b].Backend = b
             /\ (~report.answers[b].available \/ report.answers[b].err # "nil")
                    => ~report.results[b].Connected
             /\ ~report.answers[b].available
                    => "GetStatus" \notin report.results[b].asked

\* an unavailable backend whose GetStatus would have reported it connected,
\* and an available one whose GetStatus failed
C30_Witness ==
    /\ report.op = "DetectAll"
    /\ \E b, c \in report.reg :
         /\ ~report.answers[b].available /\ report.answers[b].status.Connected
         /\ ~report.results[b].Connected
         /\ report.answers[c].available /\ report.answers[c].err = "ErrCommandFailed"
         /\ ~report.results[c].Connected


\* ------------------------------------------------------------------------
\* Properties of the registry NewRegistry makes
\* ------------------------------------------------------------------------
\* C31: on the registry of NewRegistry a DetectBest that returns while its
\* context is not cancelled returns a backend and no error, and returns the
\* LAN backend when no mesh backend was available.
C31_DefaultRegistryHasLAN ==
    (agg.pc = "returned" /\ registry = BackendNames /\ ~ctxDone) =>
        /\ agg.err = "nil"
        /\ agg.backend \in BackendNames
        /\ (\A b \in BackendNames \ {"lan"} : ~task[b].available)
               => agg.backend = "lan"

\* no mesh backend was available and the LAN backend was returned
C31_Witness ==
    /\ agg.pc = "returned" /\ registry = BackendNames /\ ~ctxDone
    /\ \A b \in BackendNames \ {"lan"} : task[b].pc = "done" /\ ~task[b].available
    /\ agg.backend = "lan"


\* ------------------------------------------------------------------------
\* Properties of the Registry
\* ------------------------------------------------------------------------
\* the calls of Register that gave a backend of this name
RegisteredAs(name) == {i \in 1..Len(table.log) : table.log[i].name = name}

\* C32: Get returns the backend that was registered last under exactly the
\* name given and fails for a name that was never registered; List holds
\* no two backends of the same name.
C32_RegistryLookup ==
    table.op = "Get" =>
        /\ RegisteredAs(table.name) = {} => ~table.ok /\ table.backend = NoInstance
        /\ RegisteredAs(table.name) # {} =>
               /\ table.ok
               /\ \E i \in RegisteredAs(table.name) :
                    /\ \A j \in RegisteredAs(table.name) : j <= i
                    /\ table.backend = table.log[i]
        /\ \A i, j \in 1..Len(table.list) :
               i # j => table.list[i].name # table.list[j].name

\* a name registered twice with different values and looked up, with
\* another name registered beside it
C32_Witness ==
    /\ table.op = "Get"
    /\ \E i, j \in RegisteredAs(table.name) : i < j /\ table.log[i] # table.log[j]
    /\ table.ok /\ Len(table.list) = 2


\* ------------------------------------------------------------------------
\* Properties of the fingerprint
\* ------------------------------------------------------------------------
\* key.Marshal(): the bytes of a key
Marshal(key) == key.type \o key.blob

C34_ProbeProtocol ==
    /\ agg.pc # "idle" =>
           \A b \in BackendNames : task[b].pc # "none" <=> b \in registry
    /\ \A b \in BackendNames :
           /\ task[b].asked \in {<<>>, <<"IsAvailable">>, <<"IsAvailable", "IsConnected">>}
           /\ Len(task[b].asked) = 2 => task[b].available
           /\ task[b].pc \in {"send", "done"} =>
                  Len(task[b].asked) = IF task[b].available THEN 2 ELSE 1
           /\ task[b].sent = IF task[b].pc = "done" THEN 1 ELSE 0
    /\ (agg.pc = "returned" /\ agg.err # "ctxErr") =>
           /\ agg.collected = registry
           /\ agg.i = Cardinality(registry)
           /\ results = <<>>
           /\ \A b \in registry : task[b].sent = 1

\* a DetectBest of three backends that returned without cancellation, one
\* backend unavailable and one available
C34_Witness ==
    /\ agg.pc = "returned" /\ agg.err # "ctxErr"
    /\ Cardinality(registry) = 3
    /\ \E b, c \in registry :
         /\ task[b].asked = <<"IsAvailable">>
         /\ task[c].asked = <<"IsAvailable", "IsConnected">>

\* C35: no goroutine of DetectBest blocks on its send: the channel has
\* room for the result of every goroutine that is about to send, also
\* after DetectBest has returned on cancellation.
C35_SendNeverBlocks ==
    \A b \in registry : task[b].pc = "send" => Len(results) < cap(backends)

\* DetectBest has returned on cancellation, results lie in the channel, and a
\* goroutine is about to send
C35_Witness ==
    /\ agg.pc = "returned" /\ agg.err = "ctxErr"
    /\ results # <<>>
    /\ \E b \in registry : task[b].pc = "send"

\* every call of IsAvailable and of IsConnected returns in the end
ProbesReturn == WF_vars(IsAvailable) /\ WF_vars(IsConnected)

\* C36: under fair scheduling, when every probe returns in the end or the
\* context is cancelled in the end, a DetectBest that was called returns.
C36_DetectBestTerminates ==
    (ProbesReturn \/ <>ctxDone) => ((agg.pc = "collect") ~> (agg.pc = "returned"))

\* DetectBest returned on cancellation while a probe had not returned
C36_Witness ==
    /\ agg.pc = "returned" /\ agg.err = "ctxErr"
    /\ \E b \in registry : task[b].pc \in {"IsAvailable", "IsConnected"}


\* ------------------------------------------------------------------------
\* Properties of two invocations at work on one known_hosts file
\* ------------------------------------------------------------------------
\* the invocation accepted a host that was unknown and returned no error
Accepted(p) ==
    /\ procs[p].pc = "done" /\ procs[p].op = "verify"
    /\ procs[p].known = "unknown" /\ procs[p].err = "nil"

\* the other invocation worked on another host: it accepted one, or removed
\* one whose name is no part of the entry of this one
OtherHost(p, q) ==
    /\ procs[q].pc = "done"
    /\ \/ Accepted(q) /\ Normalize(procs[q].hostname) # Normalize(procs[p].hostname)
       \/ /\ procs[q].op = "remove"
          /\ ~Contains(Line(procs[p].hostname, procs[p].key), procs[q].hostname)

\* C37: when one invocation accepts a new host while the other accepts or
\* removes another host, the entry of the first is in the file after both.
C37_NoAcceptedEntryLost ==
    \A p, q \in Procs :
        (p # q /\ Accepted(p) /\ OtherHost(p, q)) =>
            Stored(knownHosts, procs[p].hostname, procs[p].key) = "this"

\* two invocations accepted different keys for the same host and both
\* returned no error
BothAccepted(p, q) ==
    /\ p # q /\ Accepted(p) /\ Accepted(q)
    /\ procs[p].hostname = procs[q].hostname
    /\ procs[p].key.type = procs[q].key.type
    /\ procs[p].key # procs[q].key

\* C38: two first-contact verifications of the same unknown host with
\* different keys are not both accepted and stored: the file never holds
\* the two conflicting entries.
C38_NoConflictingAccepts ==
    \A p, q \in Procs :
        BothAccepted(p, q) =>
            ~({procs[p].key, procs[q].key} \subseteq StoredKeys(knownHosts, procs[p].hostname))


\* ------------------------------------------------------------------------
\* Properties of the entries of different hosts
\* ------------------------------------------------------------------------
\* C39: trust is per hostname. Accepting a key for a host writes an entry
\* for that host only, and a host that has no entry is unknown and asked
\* about also when the key it presents is stored for another host.
C39_TrustPerHostname ==
    /\ (last.op = "verify" /\ last.err = "nil" /\ last.wrote) =>
           last.kept /\ last.post = "this"
    /\ (last.op = "verify" /\ last.pre = "none" /\ last.elsewhere
            /\ last.fs \notin LoadFaults) =>
           /\ last.known = "unknown"
           /\ last.prompted

\* a host without an entry presented a key stored for another host, was
\* asked about and accepted
C39_Witness ==
    /\ last.op = "verify" /\ last.pre = "none" /\ last.elsewhere
    /\ last.known = "unknown" /\ last.prompted
    /\ last.err = "nil" /\ last.wrote /\ last.kept


\* ------------------------------------------------------------------------
\* Properties of the Config
\* ------------------------------------------------------------------------
\* C40: CurrentProfile names a profile of the Config, or is empty and the
\* Config has no profile; the first profile added becomes current, a
\* further one leaves CurrentProfile as it was, and a call that fails
\* (empty name, unknown profile) changes nothing.
C40_CurrentProfile ==
    /\ \/ config.CurrentProfile \in NamesOf(config.Profiles)
       \/ config.CurrentProfile = "" /\ config.Profiles = {}
    /\ (config.op = "AddProfile" /\ ~config.err) =>
           /\ config.name \in NamesOf(config.Profiles)
           /\ config.wasProfiles = {} => config.CurrentProfile = config.name
           /\ config.wasProfiles # {} => config.CurrentProfile = config.wasCurrent
    /\ config.op = "AddProfile" => (config.err <=> config.name = "")
    /\ config.op \in {"DeleteProfile", "SetCurrentProfile"} =>
           (config.err <=> config.name \notin NamesOf(config.wasProfiles))
    /\ config.err =>
           /\ config.CurrentProfile = config.wasCurrent
           /\ config.Profiles = config.wasProfiles

\* the current profile was deleted while two others were there, and one of
\* them became current
C40_Witness ==
    /\ config.op = "DeleteProfile" /\ ~config.err
    /\ config.name = config.wasCurrent
    /\ Cardinality(config.Profiles) = 2
    /\ config.CurrentProfile \in NamesOf(config.Profiles)

====
